---- MODULE Spec2Model ----
(***************************************************************************)
(* Entity simulation of Project Aetheria: EntityManager                    *)
(* (src/utils/entityManager.ts), createEntity and EntityAI                 *)
(* (src/utils/entitySystem.ts).                                            *)
(*                                                                         *)
(* Numbers are fixed point.  delta is counted in tenths of a second;       *)
(* needs are counted in 1/10000 (1.0 = 10000); health and age in 1/1000    *)
(* (100 = 100000); positions and tile heights in 1/100 of a tile;          *)
(* ticksSinceLastAction in 1/10; probabilities in 1/10000.                 *)
(***************************************************************************)
EXTENDS Integers, Sequences, FiniteSets, TLC

VARIABLES
    tiles,                     \* EntityManager.tiles: Tile[][] (tiles[x+1][y+1])
    entities,                  \* EntityManager.entities: the ids in the Map (insertion order = id order)
    entityAIs,                 \* EntityManager.entityAIs: id -> EntityAI fields
    heap,                      \* every Entity object ever created, by id (objects outlive the Map)
    entityPopulationDensity,   \* 'low' | 'medium' | 'high'
    reproductionProbability,   \* in 1/10000
    deathProbability,          \* in 1/10000
    timers,                    \* pending setTimeout callbacks of reproduceEntity (parent ids)
    updates,                   \* number of update calls made so far
    last                       \* the last API call: operation, arguments, result, observations

vars == <<tiles, entities, entityAIs, heap, entityPopulationDensity,
          reproductionProbability, deathProbability, timers, updates, last>>

----------------------------------------------------------------------------
(* Bounds of the model *)

\* entity objects ever created (spawned or born)
MaxEntities == 8
\* spawnEntity calls made through the API
MaxSpawns == 2
\* update calls with a delta drawn freely
MaxUpdates == 3
\* update calls of a run that follows one entity frame by frame
MaxFrames == 13

----------------------------------------------------------------------------
(* Types (src/types/world.ts) *)

EntityType == {"human", "elf", "dwarf", "orc", "wolf", "bear", "deer", "rabbit",
               "bird", "fish", "dragon", "demon", "zombie", "skeleton",
               "elemental", "bandit"}

BiomeType == {"deep_ocean", "ocean", "shallow_water", "river", "lake", "beach",
              "rocky_shore", "grassland", "deciduous_forest", "coniferous_forest",
              "hills", "mountains", "taiga", "tundra", "snow", "ice", "glacier",
              "desert", "savanna", "mesa", "badlands", "swamp", "marsh",
              "rainforest", "tropical_forest", "volcanic", "corrupted",
              "enchanted_forest", "sky_island"}

Density == {"low", "medium", "high"}

\* tile.type.includes('forest')
IncludesForest(biome) ==
    biome \in {"deciduous_forest", "coniferous_forest", "rainforest",
               "tropical_forest", "enchanted_forest"}

NoTile == <<-1, -1>>
NoEntity == 0

Max(a, b) == IF a >= b THEN a ELSE b
Min(a, b) == IF a <= b THEN a ELSE b

----------------------------------------------------------------------------
(* createEntity *)

baseEntity(id, type, x, y) ==
    [ id |-> id, type |-> type,
      age |-> 0, maxAge |-> 100000,
      health |-> 100000, maxHealth |-> 100000,
      position |-> [x |-> x * 100, y |-> y * 100],
      attributes |-> [strength |-> 10, intelligence |-> 10, speed |-> 10, resilience |-> 10],
      needs |-> [hunger |-> 10000, thirst |-> 10000, rest |-> 10000, social |-> 10000],
      inventory |-> << >>,
      status |-> << >> ]

Attr(s, i, sp, r) == [strength |-> s, intelligence |-> i, speed |-> sp, resilience |-> r]

createEntity(id, type, x, y) ==
    LET b == baseEntity(id, type, x, y) IN
    CASE type = "human"  -> [b EXCEPT !.maxAge = 80000, !.attributes = Attr(10, 15, 10, 10)]
      [] type = "elf"    -> [b EXCEPT !.maxAge = 500000, !.attributes = Attr(8, 18, 12, 8)]
      [] type = "dwarf"  -> [b EXCEPT !.maxAge = 250000, !.attributes = Attr(15, 12, 8, 15)]
      [] type = "orc"    -> [b EXCEPT !.maxAge = 60000, !.attributes = Attr(18, 8, 10, 12)]
      [] type = "wolf"   -> [b EXCEPT !.maxAge = 15000, !.maxHealth = 80000,
                                      !.attributes = Attr(12, 8, 15, 10)]
      [] type = "bear"   -> [b EXCEPT !.maxAge = 25000, !.maxHealth = 150000,
                                      !.attributes = Attr(18, 7, 8, 15)]
      [] type = "deer"   -> [b EXCEPT !.maxAge = 12000, !.maxHealth = 70000,
                                      !.attributes = Attr(6, 6, 16, 8)]
      [] type = "rabbit" -> [b EXCEPT !.maxAge = 8000, !.maxHealth = 30000,
                                      !.attributes = Attr(3, 5, 18, 4)]
      [] type = "fish"   -> [b EXCEPT !.maxAge = 5000, !.maxHealth = 20000,
                                      !.attributes = Attr(2, 2, 8, 3)]
      [] type = "bird"   -> [b EXCEPT !.maxAge = 5000, !.maxHealth = 15000,
                                      !.attributes = Attr(2, 6, 20, 3)]
      [] type = "dragon" -> [b EXCEPT !.maxAge = 1000000, !.maxHealth = 500000,
                                      !.attributes = Attr(30, 20, 15, 30)]
      [] type = "demon"  -> [b EXCEPT !.maxAge = 888000, !.maxHealth = 300000,
                                      !.attributes = Attr(25, 18, 18, 25)]
      [] type = "zombie" -> [b EXCEPT !.maxAge = 1000000, !.maxHealth = 150000,
                                      !.needs = [hunger |-> 2000, thirst |-> 10000,
                                                 rest |-> 10000, social |-> 5000],
                                      !.attributes = Attr(15, 2, 5, 20)]
      [] type = "skeleton" -> [b EXCEPT !.maxAge = 1000000, !.maxHealth = 100000,
                                      !.needs = [hunger |-> 10000, thirst |-> 10000,
                                                 rest |-> 10000, social |-> 3000],
                                      !.attributes = Attr(10, 4, 8, 15)]
      [] type = "bandit" -> [b EXCEPT !.maxAge = 60000, !.attributes = Attr(12, 10, 12, 10)]
      [] type = "elemental" -> [b EXCEPT !.maxAge = 300000, !.maxHealth = 250000,
                                      !.attributes = Attr(20, 15, 10, 20)]
      [] OTHER -> b

\* new EntityAI(entity)
NewEntityAI ==
    [ currentState |-> "idle", targetTile |-> NoTile, targetEntity |-> NoEntity,
      path |-> << >>, ticksSinceLastAction |-> 0, ticksToNextStateChange |-> 0 ]

----------------------------------------------------------------------------
(* EntityManager: pure helpers *)

\* The world as one value, so that the handlers can be composed.  killed holds the
\* arguments of the first killEntity(entity, cause) call of the running update that
\* removed an entity (empty while there was none).
World ==
    [ tiles |-> tiles, entities |-> entities, entityAIs |-> entityAIs, heap |-> heap,
      entityPopulationDensity |-> entityPopulationDensity,
      reproductionProbability |-> reproductionProbability,
      deathProbability |-> deathProbability, timers |-> timers, killed |-> << >> ]

TilesLength(w) == Len(w.tiles)
TilesHeight(w) == Len(w.tiles[1])
TileAt(w, x, y) == w.tiles[x + 1][y + 1]
InGrid(w, x, y) == x >= 0 /\ x < TilesLength(w) /\ y >= 0 /\ y < TilesHeight(w)

\* isSuitableTileForEntity(type, tile); roll is the outcome of Math.random() < 0.2
isSuitableTileForEntity(type, tile, roll) ==
    IF tile.walkable = FALSE THEN FALSE
    ELSE IF tile.type \in {"deep_ocean", "ocean"} THEN type = "fish"
    ELSE IF tile.type \in {"shallow_water", "river", "lake"} THEN type \in {"fish"}
    ELSE IF type = "elf" THEN IncludesForest(tile.type)
    ELSE IF type = "dwarf" THEN tile.type \in {"mountains", "hills"}
    ELSE IF type = "orc" THEN tile.type \in {"badlands", "savanna"}
    ELSE IF type = "wolf" THEN IncludesForest(tile.type) \/ tile.type = "taiga"
    ELSE IF type = "bear" THEN IncludesForest(tile.type) \/ tile.type \in {"taiga", "mountains"}
    ELSE IF type = "deer" THEN IncludesForest(tile.type) \/ tile.type = "grassland"
    ELSE IF type = "rabbit" THEN tile.type = "grassland"
    ELSE IF type = "bird" THEN IncludesForest(tile.type) \/ tile.type = "grassland"
    ELSE IF type = "dragon" THEN tile.type \in {"mountains", "volcanic"}
    ELSE IF type = "demon" THEN tile.type \in {"volcanic", "corrupted"}
    ELSE IF type \in {"zombie", "skeleton"} THEN tile.type = "corrupted" \/ roll
    ELSE tile.height > 25

\* whether isSuitableTileForEntity consults Math.random() for this type and tile
SuitabilityIsRandom(type, tile) ==
    isSuitableTileForEntity(type, tile, TRUE) # isSuitableTileForEntity(type, tile, FALSE)

baseMaxCounts(type) ==
    CASE type = "human" -> 100 [] type = "elf" -> 80 [] type = "dwarf" -> 60
      [] type = "orc" -> 70 [] type = "wolf" -> 30 [] type = "bear" -> 15
      [] type = "deer" -> 40 [] type = "rabbit" -> 60 [] type = "bird" -> 80
      [] type = "fish" -> 100 [] type = "dragon" -> 3 [] type = "demon" -> 5
      [] type = "zombie" -> 50 [] type = "skeleton" -> 70 [] type = "elemental" -> 10
      [] type = "bandit" -> 25 [] OTHER -> 50

\* the density switch with the low setting rounded up instead of down
MaxEntityCountRoundedUp(type, density) ==
    CASE density = "low" -> (baseMaxCounts(type) + 1) \div 2
      [] density = "medium" -> baseMaxCounts(type)
      [] density = "high" -> baseMaxCounts(type) * 2
      [] OTHER -> baseMaxCounts(type)

\* getMaxEntityCount(type) under a density setting; Math.floor(baseMax * 0.5) = baseMax \div 2
MaxEntityCountFor(type, density) ==
    CASE density = "low" -> baseMaxCounts(type) \div 2
      [] density = "medium" -> baseMaxCounts(type)
      [] density = "high" -> baseMaxCounts(type) * 2
      [] OTHER -> baseMaxCounts(type)

getMaxEntityCount(w, type) == MaxEntityCountFor(type, w.entityPopulationDensity)

\* getAllEntities() and getEntityById(id): the values of the Map themselves, that is
\* references to the stored objects (an object is named by its index in heap)
getAllEntities(w) == w.entities

getEntityById(w, id) == IF id \in w.entities THEN id ELSE NoEntity

getEntityCountByType(w, type) ==
    Cardinality({id \in w.entities : w.heap[id].type = type})

\* getPopulationDensityMultiplier(), in halves
getPopulationDensityMultiplier(w) ==
    CASE w.entityPopulationDensity = "low" -> 1
      [] w.entityPopulationDensity = "medium" -> 2
      [] w.entityPopulationDensity = "high" -> 4
      [] OTHER -> 2

----------------------------------------------------------------------------
(* EntityAI (src/utils/entitySystem.ts).  A handler that calls Math.random() *)
(* is a set of outcomes, one per result of the draw.                        *)

Ent(w, id) == w.heap[id]
AI(w, id) == w.entityAIs[id]
SetEnt(w, id, e) == [w EXCEPT !.heap[id] = e]
SetAI(w, id, ai) == [w EXCEPT !.entityAIs[id] = ai]

Abs(n) == IF n < 0 THEN -n ELSE n
Sgn(n) == IF n < 0 THEN -1 ELSE IF n > 0 THEN 1 ELSE 0

RECURSIVE SqrtFrom(_, _)
SqrtFrom(n, r) == IF (r + 1) * (r + 1) > n THEN r ELSE SqrtFrom(n, r + 1)

\* Math.sqrt, rounded down
Sqrt(n) == SqrtFrom(n, 0)

\* Math.floor of a coordinate, in tiles
Floor(c) == c \div 100
IsInteger(c) == c % 100 = 0

\* all tile coordinates in scan order (for x ... for y ...)
RECURSIVE ScanFrom(_, _, _)
ScanFrom(w, x, y) ==
    IF x >= TilesLength(w) THEN << >>
    ELSE IF y >= TilesHeight(w) THEN ScanFrom(w, x + 1, 0)
    ELSE << <<x, y>> >> \o ScanFrom(w, x, y + 1)

Scan(w) == ScanFrom(w, 0, 0)

Tile(w, t) == TileAt(w, t[1], t[2])

Dist2(e, px, py) ==
    (px - e.position.x) * (px - e.position.x) + (py - e.position.y) * (py - e.position.y)

WaterBiomes == {"deep_ocean", "ocean", "shallow_water", "river", "lake"}

\* findTilesByType
findTilesByType(w, types) ==
    SelectSeq(Scan(w), LAMBDA t : Tile(w, t).type \in types)

HasResource(tile, resourceType) ==
    \E i \in 1..Len(tile.resources) :
        tile.resources[i].type = resourceType /\ tile.resources[i].quantity > 0

\* findTilesWithResource
findTilesWithResource(w, resourceType) ==
    SelectSeq(Scan(w), LAMBDA t : HasResource(Tile(w, t), resourceType))

\* findClosestTile: the first tile of the list at the least distance
findClosestTile(w, id, tileList) ==
    IF Len(tileList) = 0 THEN NoTile
    ELSE LET d(i) == Dist2(Ent(w, id), tileList[i][1] * 100, tileList[i][2] * 100)
             best == CHOOSE i \in 1..Len(tileList) :
                        /\ \A j \in 1..Len(tileList) : d(i) <= d(j)
                        /\ \A j \in 1..(i - 1) : d(j) > d(i)
         IN tileList[best]

\* getCurrentTile
getCurrentTile(w, id) ==
    LET x == Floor(Ent(w, id).position.x)
        y == Floor(Ent(w, id).position.y)
    IN IF InGrid(w, x, y) THEN <<x, y>> ELSE NoTile

\* getNeighbors: the 8 surrounding tiles that are on the grid
getNeighbors(w, t) ==
    {<<t[1] + dx, t[2] + dy>> : dx \in {-1, 0, 1}, dy \in {-1, 0, 1}}
        \cap {n \in (-1..TilesLength(w)) \X (-1..TilesHeight(w)) :
                n # t /\ InGrid(w, n[1], n[2])}

\* getEntityTile: a stub that returns null
getEntityTile(w, id) == NoTile

\* canEntityWalkOnBiome
canEntityWalkOnBiome(type, biomeType) ==
    IF type = "fish" THEN biomeType \in WaterBiomes
    ELSE IF type = "bird" THEN TRUE
    ELSE IF biomeType \in {"deep_ocean", "ocean"} THEN FALSE
    ELSE CASE type = "elf" -> biomeType \notin {"deep_ocean", "ocean", "volcanic"}
           [] type = "dwarf" -> biomeType \notin WaterBiomes
           [] OTHER -> biomeType \notin {"deep_ocean", "ocean"}

isPredator(type) == type \in {"wolf", "bear", "dragon", "demon", "orc"}

getPreyTypes(type) ==
    CASE type = "wolf" -> {"rabbit", "deer"}
      [] type = "bear" -> {"fish", "deer", "human"}
      [] type = "dragon" -> {"human", "elf", "dwarf", "orc", "wolf", "bear"}
      [] type = "orc" -> {"human", "elf"}
      [] type = "demon" -> {"human", "elf", "dwarf", "orc"}
      [] OTHER -> {}

\* canReproduce (EntityAI): age within [0.3, 0.7] maxAge and health >= 0.7 maxHealth
canReproduce(e) ==
    /\ e.age * 10 >= e.maxAge * 3
    /\ e.age * 10 <= e.maxAge * 7
    /\ e.health * 10 >= e.maxHealth * 7

\* die
die(w, id) ==
    SetAI(SetEnt(w, id, [Ent(w, id) EXCEPT !.health = 0, !.status = Append(@, "dead")]),
          id, [AI(w, id) EXCEPT !.currentState = "dying"])

\* Clamp01 without the Math.max(0, ...) half of the clamp
Clamp01WithoutFloor(n) == Min(10000, n)

Clamp01(n) == Max(0, Min(10000, n))

\* updateNeeds with the age statement subtracting instead of adding
updateNeedsAgeSubtracted(w, id, deltaTime) ==
    LET e == Ent(w, id)
        hunger == Clamp01(e.needs.hunger - 10 * deltaTime)
        thirst == Clamp01(e.needs.thirst - 15 * deltaTime)
        rest == Clamp01(e.needs.rest - 5 * deltaTime)
        social == Clamp01(e.needs.social - 2 * deltaTime)
        h1 == IF hunger <= 1000 THEN e.health - 5 * deltaTime ELSE e.health
        h2 == IF thirst <= 1000 THEN h1 - 10 * deltaTime ELSE h1
        age == e.age - deltaTime
        h3 == IF age * 10 >= e.maxAge * 9 THEN h2 - 2 * deltaTime ELSE h2
    IN SetEnt(w, id, [e EXCEPT !.needs = [hunger |-> hunger, thirst |-> thirst,
                                          rest |-> rest, social |-> social],
                               !.health = h3, !.age = age])

\* updateNeeds
updateNeeds(w, id, deltaTime) ==
    LET e == Ent(w, id)
        hunger == Clamp01(e.needs.hunger - 10 * deltaTime)
        thirst == Clamp01(e.needs.thirst - 15 * deltaTime)
        rest == Clamp01(e.needs.rest - 5 * deltaTime)
        social == Clamp01(e.needs.social - 2 * deltaTime)
        h1 == IF hunger <= 1000 THEN e.health - 5 * deltaTime ELSE e.health
        h2 == IF thirst <= 1000 THEN h1 - 10 * deltaTime ELSE h1
        age == e.age + deltaTime
        h3 == IF age * 10 >= e.maxAge * 9 THEN h2 - 2 * deltaTime ELSE h2
    IN SetEnt(w, id, [e EXCEPT !.needs = [hunger |-> hunger, thirst |-> thirst,
                                          rest |-> rest, social |-> social],
                               !.health = h3, !.age = age])

\* moveRandomly: one outcome per walkable neighbour
moveRandomly(w, id) ==
    LET currentTile == getCurrentTile(w, id) IN
    IF currentTile = NoTile THEN {w}
    ELSE LET walkableNeighbors ==
                 {n \in getNeighbors(w, currentTile) :
                     /\ Tile(w, n).walkable # FALSE
                     /\ canEntityWalkOnBiome(Ent(w, id).type, Tile(w, n).type)}
         IN IF walkableNeighbors = {} THEN {w}
            ELSE {SetAI(w, id, [AI(w, id) EXCEPT !.targetTile = n, !.path = <<n>>,
                                                 !.currentState = "moving"])
                    : n \in walkableNeighbors}

\* findWaterSource
findWaterSource(w, id) ==
    LET waterTiles == findTilesByType(w, WaterBiomes) IN
    IF Len(waterTiles) > 0
    THEN {SetAI(w, id, [AI(w, id) EXCEPT !.targetTile = findClosestTile(w, id, waterTiles),
                                        !.currentState = "moving"])}
    ELSE moveRandomly(w, id)

\* the entities listed on the tiles, tile by tile in scan order
RECURSIVE ListedFrom(_, _)
ListedFrom(w, ts) ==
    IF ts = << >> THEN << >>
    ELSE Tile(w, Head(ts)).entities \o ListedFrom(w, Tail(ts))

Listed(w) == ListedFrom(w, Scan(w))

\* the first entity of the list at the least distance from entity id
closestEntity(w, id, list) ==
    LET d(i) == Dist2(Ent(w, id), Ent(w, list[i]).position.x, Ent(w, list[i]).position.y)
        best == CHOOSE i \in 1..Len(list) :
                    /\ \A j \in 1..Len(list) : d(i) <= d(j)
                    /\ \A j \in 1..(i - 1) : d(j) > d(i)
    IN list[best]

\* findPreyToHunt
findPreyToHunt(w, id) ==
    LET preyTypes == getPreyTypes(Ent(w, id).type)
        preyEntities == SelectSeq(Listed(w),
                            LAMBDA o : Ent(w, o).type \in preyTypes /\ Ent(w, o).health > 0)
    IN IF Len(preyEntities) > 0
       THEN {SetAI(w, id, [AI(w, id) EXCEPT !.targetEntity = closestEntity(w, id, preyEntities),
                                           !.currentState = "hunting"])}
       ELSE moveRandomly(w, id)

\* findFoodSource
findFoodSource(w, id) ==
    IF isPredator(Ent(w, id).type) THEN findPreyToHunt(w, id)
    ELSE LET foodTiles == findTilesWithResource(w, "food") IN
         IF Len(foodTiles) > 0
         THEN {SetAI(w, id, [AI(w, id) EXCEPT !.targetTile = findClosestTile(w, id, foodTiles),
                                             !.currentState = "moving"])}
         ELSE moveRandomly(w, id)

\* findSocialInteraction
findSocialInteraction(w, id) ==
    LET socialEntities == SelectSeq(Listed(w),
                              LAMBDA o : /\ Ent(w, o).type = Ent(w, id).type
                                         /\ o # id
                                         /\ Ent(w, o).health > 0)
    IN IF Len(socialEntities) > 0
       THEN {SetAI(w, id, [AI(w, id) EXCEPT
                               !.targetEntity = closestEntity(w, id, socialEntities),
                               !.targetTile = getEntityTile(w, closestEntity(w, id, socialEntities)),
                               !.currentState = "moving"])}
       ELSE moveRandomly(w, id)

SetTile(w, t, tile) == [w EXCEPT !.tiles[t[1] + 1][t[2] + 1] = tile]

\* arriveAtTarget
arriveAtTarget(w, id) ==
    LET ai == AI(w, id)
        e == Ent(w, id)
    IN IF ai.targetTile = NoTile THEN SetAI(w, id, [ai EXCEPT !.currentState = "idle"])
       ELSE LET tile == Tile(w, ai.targetTile)
                others == {i \in 1..Len(tile.entities) :
                              /\ tile.entities[i] # id
                              /\ Ent(w, tile.entities[i]).type = e.type}
            IN IF tile.type \in {"water", "shallow_water", "ocean", "river", "lake"}
               THEN SetAI(SetEnt(w, id, [e EXCEPT !.needs.thirst = 10000]),
                          id, [ai EXCEPT !.currentState = "idle"])
               ELSE IF HasResource(tile, "food")
               THEN SetAI(w, id, [ai EXCEPT !.currentState = "gathering"])
               ELSE IF others # {}
               THEN LET adult(o) == /\ Ent(w, o).age * 10 >= Ent(w, o).maxAge * 3
                                    /\ Ent(w, o).age * 10 <= Ent(w, o).maxAge * 7
                        w1 == SetEnt(w, id, [e EXCEPT !.needs.social = 10000])
                    IN IF canReproduce(e) /\ \E i \in others : adult(tile.entities[i])
                       THEN SetAI(w1, id, [ai EXCEPT !.currentState = "reproducing"])
                       ELSE SetAI(w1, id, [ai EXCEPT !.currentState = "idle"])
               ELSE SetAI(w, id, [ai EXCEPT !.currentState = "idle"])

\* handleIdleState with the hunger test ahead of the thirst test
handleIdleStateHungerFirst(w, id) ==
    IF AI(w, id).ticksSinceLastAction < 10 THEN {w}
    ELSE LET w1 == SetAI(w, id, [AI(w, id) EXCEPT !.ticksSinceLastAction = 0])
             e == Ent(w, id)
         IN IF e.needs.hunger < 3000 THEN findFoodSource(w1, id)
            ELSE IF e.needs.thirst < 3000 THEN findWaterSource(w1, id)
            ELSE IF e.needs.rest < 2000
            THEN {SetAI(w1, id, [AI(w1, id) EXCEPT !.currentState = "sleeping",
                                                   !.ticksToNextStateChange = 5])}
            ELSE IF e.needs.social < 3000 \/ (e.needs.social > 7000 /\ canReproduce(e))
            THEN findSocialInteraction(w1, id)
            ELSE {w1} \cup moveRandomly(w1, id)

\* handleIdleState
handleIdleState(w, id) ==
    IF AI(w, id).ticksSinceLastAction < 10 THEN {w}
    ELSE LET w1 == SetAI(w, id, [AI(w, id) EXCEPT !.ticksSinceLastAction = 0])
             e == Ent(w, id)
         IN IF e.needs.thirst < 3000 THEN findWaterSource(w1, id)
            ELSE IF e.needs.hunger < 3000 THEN findFoodSource(w1, id)
            ELSE IF e.needs.rest < 2000
            THEN {SetAI(w1, id, [AI(w1, id) EXCEPT !.currentState = "sleeping",
                                                   !.ticksToNextStateChange = 5])}
            ELSE IF e.needs.social < 3000 \/ (e.needs.social > 7000 /\ canReproduce(e))
            THEN findSocialInteraction(w1, id)
            ELSE {w1} \cup moveRandomly(w1, id)

\* handleMovingState
handleMovingState(w, id) ==
    LET ai == AI(w, id)
        e == Ent(w, id)
    IN IF Len(ai.path) = 0 \/ ai.targetTile = NoTile
       THEN SetAI(w, id, [ai EXCEPT !.currentState = "idle"])
       ELSE LET nextTile == ai.path[1]
                dx == nextTile[1] * 100 - e.position.x
                dy == nextTile[2] * 100 - e.position.y
                d2 == dx * dx + dy * dy
            IN IF d2 < 100
               THEN LET w1 == SetAI(SetEnt(w, id, [e EXCEPT !.position =
                                        [x |-> nextTile[1] * 100, y |-> nextTile[2] * 100]]),
                                    id, [ai EXCEPT !.path = Tail(@)])
                    IN IF Len(AI(w1, id).path) = 0
                       THEN IF nextTile = ai.targetTile
                            THEN arriveAtTarget(w1, id)
                            ELSE SetAI(w1, id, [AI(w1, id) EXCEPT !.currentState = "idle"])
                       ELSE w1
               ELSE LET speed == e.attributes.speed
                        distance == Sqrt(d2)
                    IN SetEnt(w, id, [e EXCEPT
                           !.position.x = @ + Sgn(dx) * ((Abs(dx) * speed) \div distance),
                           !.position.y = @ + Sgn(dy) * ((Abs(dy) * speed) \div distance)])

\* the inventory after adding an amount of a resource type
AddToInventory(inventory, type, amount) ==
    IF \E i \in 1..Len(inventory) : inventory[i].type = type
    THEN LET k == CHOOSE i \in 1..Len(inventory) :
                      /\ inventory[i].type = type
                      /\ \A j \in 1..(i - 1) : inventory[j].type # type
         IN [inventory EXCEPT ![k].quantity = @ + amount]
    ELSE Append(inventory, [type |-> type, quantity |-> amount, discovered |-> TRUE])

\* handleGatheringState without the removal of depleted entries
handleGatheringStateKeepsDepleted(w, id) ==
    LET ai == AI(w, id)
        e == Ent(w, id)
    IN IF ai.ticksSinceLastAction < 20
       THEN SetAI(w, id, [ai EXCEPT !.ticksSinceLastAction = @ + 1])
       ELSE IF ai.targetTile = NoTile
       THEN SetAI(w, id, [ai EXCEPT !.currentState = "idle"])
       ELSE LET tile == Tile(w, ai.targetTile)
                done(v) == SetAI(v, id, [AI(v, id) EXCEPT !.ticksSinceLastAction = 0,
                                                          !.currentState = "idle"])
            IN IF Len(tile.resources) > 0
               THEN LET resourceToGather == tile.resources[1]
                        gatherAmount == Min(10, resourceToGather.quantity)
                        left == resourceToGather.quantity - gatherAmount
                        taken == [tile.resources EXCEPT ![1].quantity = left]
                        kept == taken
                        hunger == IF resourceToGather.type = "food"
                                  THEN Min(10000, e.needs.hunger + 3000)
                                  ELSE e.needs.hunger
                        w1 == SetTile(w, ai.targetTile, [tile EXCEPT !.resources = kept])
                        w2 == SetEnt(w1, id, [e EXCEPT
                                  !.inventory = AddToInventory(@, resourceToGather.type, gatherAmount),
                                  !.needs.hunger = hunger])
                    IN done(w2)
               ELSE done(w)

\* handleGatheringState (resource quantities in 1/10)
handleGatheringState(w, id) ==
    LET ai == AI(w, id)
        e == Ent(w, id)
    IN IF ai.ticksSinceLastAction < 20
       THEN SetAI(w, id, [ai EXCEPT !.ticksSinceLastAction = @ + 1])
       ELSE IF ai.targetTile = NoTile
       THEN SetAI(w, id, [ai EXCEPT !.currentState = "idle"])
       ELSE LET tile == Tile(w, ai.targetTile)
                done(v) == SetAI(v, id, [AI(v, id) EXCEPT !.ticksSinceLastAction = 0,
                                                          !.currentState = "idle"])
            IN IF Len(tile.resources) > 0
               THEN LET resourceToGather == tile.resources[1]
                        gatherAmount == Min(10, resourceToGather.quantity)
                        left == resourceToGather.quantity - gatherAmount
                        taken == [tile.resources EXCEPT ![1].quantity = left]
                        kept == IF left <= 0
                                THEN SelectSeq(taken, LAMBDA r : r.quantity > 0)
                                ELSE taken
                        hunger == IF resourceToGather.type = "food"
                                  THEN Min(10000, e.needs.hunger + 3000)
                                  ELSE e.needs.hunger
                        w1 == SetTile(w, ai.targetTile, [tile EXCEPT !.resources = kept])
                        w2 == SetEnt(w1, id, [e EXCEPT
                                  !.inventory = AddToInventory(@, resourceToGather.type, gatherAmount),
                                  !.needs.hunger = hunger])
                    IN done(w2)
               ELSE done(w)

\* handleHuntingState: one outcome per value of 2 + Math.floor(Math.random() * 3)
handleHuntingState(w, id) ==
    LET ai == AI(w, id)
        e == Ent(w, id)
    IN IF ai.targetEntity = NoEntity
       THEN {SetAI(w, id, [ai EXCEPT !.currentState = "idle"])}
       ELSE LET target == Ent(w, ai.targetEntity)
            IN IF Dist2(e, target.position.x, target.position.y) < 10000
               THEN LET damage == e.attributes.strength * 200
                        w1 == SetEnt(w, ai.targetEntity,
                                     [target EXCEPT !.health = @ - damage,
                                                    !.status = Append(@, "wounded")])
                    IN IF Ent(w1, ai.targetEntity).health <= 0
                       THEN {SetAI(SetEnt(w1, id, [Ent(w1, id) EXCEPT
                                       !.inventory = AddToInventory(@, "food", foodAmount * 10)]),
                                   id, [ai EXCEPT !.targetEntity = NoEntity,
                                                  !.currentState = "idle"])
                               : foodAmount \in 2..4}
                       ELSE {w1}
               ELSE {SetAI(w, id, [ai EXCEPT !.currentState = "moving",
                                             !.targetTile = getEntityTile(w, ai.targetEntity)])}

\* handleFleeingState (at distance 0 the source divides by zero; no state enters fleeing)
handleFleeingState(w, id) ==
    LET ai == AI(w, id)
        e == Ent(w, id)
    IN IF ai.targetEntity = NoEntity
       THEN SetAI(w, id, [ai EXCEPT !.currentState = "idle"])
       ELSE LET target == Ent(w, ai.targetEntity)
                dx == e.position.x - target.position.x
                dy == e.position.y - target.position.y
                d2 == dx * dx + dy * dy
                distance == Max(1, Sqrt(d2))
                speed == (e.attributes.speed * 12) \div 10
                w1 == SetEnt(w, id, [e EXCEPT
                          !.position.x = @ + Sgn(dx) * ((Abs(dx) * speed) \div distance),
                          !.position.y = @ + Sgn(dy) * ((Abs(dy) * speed) \div distance)])
            IN IF d2 > 1000000
               THEN SetAI(w1, id, [ai EXCEPT !.currentState = "idle", !.targetEntity = NoEntity])
               ELSE w1

\* handleSleepingState
handleSleepingState(w, id) ==
    LET ai == [AI(w, id) EXCEPT !.ticksToNextStateChange = @ - 1]
        w1 == SetEnt(w, id, [Ent(w, id) EXCEPT !.needs.rest = Min(10000, @ + 1000)])
    IN IF ai.ticksToNextStateChange <= 0
       THEN SetAI(w1, id, [ai EXCEPT !.currentState = "idle"])
       ELSE SetAI(w1, id, ai)

\* handleFightingState: the hunting handler
handleFightingState(w, id) == handleHuntingState(w, id)

\* handleBuildingState, handleReproducingState
handleBuildingState(w, id) == SetAI(w, id, [AI(w, id) EXCEPT !.currentState = "idle"])
handleReproducingState(w, id) == SetAI(w, id, [AI(w, id) EXCEPT !.currentState = "idle"])

\* handleDyingState
handleDyingState(w, id) == SetEnt(w, id, [Ent(w, id) EXCEPT !.status = Append(@, "dead")])

\* EntityAI.update without the return after die(): the needs decay and the state
\* handler run for a dead entity as well
EntityAI_updateWithoutReturn(w, id, deltaTime) ==
    LET w0 == SetAI(w, id, [AI(w, id) EXCEPT !.ticksSinceLastAction = @ + deltaTime])
        wd == IF Ent(w0, id).health <= 0 THEN die(w0, id) ELSE w0
        w1 == updateNeeds(wd, id, deltaTime)
        state == AI(w1, id).currentState
    IN CASE state = "idle" -> handleIdleState(w1, id)
         [] state = "moving" -> {handleMovingState(w1, id)}
         [] state = "gathering" -> {handleGatheringState(w1, id)}
         [] state = "hunting" -> handleHuntingState(w1, id)
         [] state = "sleeping" -> {handleSleepingState(w1, id)}
         [] state = "dying" -> {handleDyingState(w1, id)}
         [] OTHER -> {w1}

\* EntityAI.update(tiles, deltaTime): the set of outcomes
EntityAI_update(w, id, deltaTime) ==
    LET w0 == SetAI(w, id, [AI(w, id) EXCEPT !.ticksSinceLastAction = @ + deltaTime]) IN
    IF Ent(w0, id).health <= 0 THEN {die(w0, id)}
    ELSE LET w1 == updateNeeds(w0, id, deltaTime)
             state == AI(w1, id).currentState
         IN CASE state = "idle" -> handleIdleState(w1, id)
              [] state = "moving" -> {handleMovingState(w1, id)}
              [] state = "gathering" -> {handleGatheringState(w1, id)}
              [] state = "hunting" -> handleHuntingState(w1, id)
              [] state = "fleeing" -> {handleFleeingState(w1, id)}
              [] state = "building" -> {handleBuildingState(w1, id)}
              [] state = "fighting" -> handleFightingState(w1, id)
              [] state = "sleeping" -> {handleSleepingState(w1, id)}
              [] state = "reproducing" -> {handleReproducingState(w1, id)}
              [] state = "dying" -> {handleDyingState(w1, id)}
              [] OTHER -> {w1}

----------------------------------------------------------------------------
(* EntityManager (src/utils/entityManager.ts).  A call either completes or  *)
(* ends in a TypeError (threw), keeping the writes made before it.          *)

Ok(w) == [w |-> w, threw |-> FALSE]
Threw(w) == [w |-> w, threw |-> TRUE]

\* tiles[c] is defined: c is an integer index of the array (c in 1/100)
RowDefined(w, c) == IsInteger(c) /\ Floor(c) >= 0 /\ Floor(c) < TilesLength(w)
ColDefined(w, c) == IsInteger(c) /\ Floor(c) >= 0 /\ Floor(c) < TilesHeight(w)

\* spawnEntity that registers the entity before the suitability check and so keeps
\* it when the check returns null
spawnEntityRegisteringFirst(w, type, x, y, roll) ==
    IF x < 0 \/ x >= TilesLength(w) \/ y < 0 \/ y >= TilesHeight(w)
    THEN [w |-> w, result |-> NoEntity]
    ELSE LET tile == TileAt(w, x, y)
             id == Len(w.heap) + 1
             entity == createEntity(id, type, x, y)
             w1 == [w EXCEPT !.heap = Append(@, entity),
                             !.entities = @ \cup {id},
                             !.entityAIs = [i \in (DOMAIN @) \cup {id} |->
                                               IF i = id THEN NewEntityAI ELSE @[i]],
                             !.tiles[x + 1][y + 1].entities = Append(@, id)]
         IN IF ~isSuitableTileForEntity(type, tile, roll)
            THEN [w |-> w1, result |-> NoEntity]
            ELSE [w |-> w1, result |-> id]

\* spawnEntity that hands the coordinates to createEntity in the order (y, x)
spawnEntitySwappedPosition(w, type, x, y, roll) ==
    IF x < 0 \/ x >= TilesLength(w) \/ y < 0 \/ y >= TilesHeight(w)
    THEN [w |-> w, result |-> NoEntity]
    ELSE LET tile == TileAt(w, x, y) IN
         IF ~isSuitableTileForEntity(type, tile, roll)
         THEN [w |-> w, result |-> NoEntity]
         ELSE LET id == Len(w.heap) + 1
                  entity == createEntity(id, type, y, x)
              IN [w |-> [w EXCEPT !.heap = Append(@, entity),
                                  !.entities = @ \cup {id},
                                  !.entityAIs = [i \in (DOMAIN @) \cup {id} |->
                                                    IF i = id THEN NewEntityAI ELSE @[i]],
                                  !.tiles[x + 1][y + 1].entities = Append(@, id)],
                  result |-> id]

\* spawnEntity(type, x, y): the world after the call and the entity returned (NoEntity: null)
spawnEntity(w, type, x, y, roll) ==
    IF x < 0 \/ x >= TilesLength(w) \/ y < 0 \/ y >= TilesHeight(w)
    THEN [w |-> w, result |-> NoEntity]
    ELSE LET tile == TileAt(w, x, y) IN
         IF ~isSuitableTileForEntity(type, tile, roll)
         THEN [w |-> w, result |-> NoEntity]
         ELSE LET id == Len(w.heap) + 1
                  entity == createEntity(id, type, x, y)
              IN [w |-> [w EXCEPT !.heap = Append(@, entity),
                                  !.entities = @ \cup {id},
                                  !.entityAIs = [i \in (DOMAIN @) \cup {id} |->
                                                    IF i = id THEN NewEntityAI ELSE @[i]],
                                  !.tiles[x + 1][y + 1].entities = Append(@, id)],
                  result |-> id]

RemoveFirst(seq, v) ==
    IF \E i \in 1..Len(seq) : seq[i] = v
    THEN LET k == CHOOSE i \in 1..Len(seq) : seq[i] = v /\ \A j \in 1..(i - 1) : seq[j] # v
         IN SubSeq(seq, 1, k - 1) \o SubSeq(seq, k + 1, Len(seq))
    ELSE seq

\* killEntity(entity, cause)
killEntity(w, id, cause) ==
    LET x == Ent(w, id).position.x
        y == Ent(w, id).position.y
    IN IF ~RowDefined(w, x) THEN Threw(w)
       ELSE LET w1 == [w EXCEPT !.entities = @ \ {id},
                                !.entityAIs = [i \in (DOMAIN @) \ {id} |-> @[i]],
                                !.killed = IF @ = << >> THEN <<<<id, cause>>>> ELSE @]
            IN IF ~ColDefined(w, y) THEN Threw(w1)
               ELSE Ok([w1 EXCEPT !.tiles[Floor(x) + 1][Floor(y) + 1].entities =
                                      RemoveFirst(@, id)])

\* getNearbyTiles without the skip of the centre tile
getNearbyTilesWithCentre(w, x, y, range) ==
    {c \in {<<x + dx * 100, y + dy * 100>> : dx \in (-range)..range, dy \in (-range)..range} :
        /\ c[1] >= 0 /\ c[1] < TilesLength(w) * 100
        /\ c[2] >= 0 /\ c[2] < TilesHeight(w) * 100}

\* getNearbyTiles(x, y, range) for a position in 1/100: the in-bounds candidates
getNearbyTiles(w, x, y, range) ==
    {c \in {<<x + dx * 100, y + dy * 100>> : dx \in (-range)..range, dy \in (-range)..range} :
        /\ c # <<x, y>>
        /\ c[1] >= 0 /\ c[1] < TilesLength(w) * 100
        /\ c[2] >= 0 /\ c[2] < TilesHeight(w) * 100}

\* reproduceEntity with the capacity test entityCount > maxCount
reproduceEntityPastCapacity(w, id) ==
    LET e == Ent(w, id)
        entityCount == getEntityCountByType(w, e.type)
        maxCount == getMaxEntityCount(w, e.type)
    IN IF entityCount > maxCount THEN {Ok(w)}
       ELSE LET possibleTiles == getNearbyTiles(w, e.position.x, e.position.y, 2) IN
            IF \E c \in possibleTiles : ~RowDefined(w, c[1]) \/ ~ColDefined(w, c[2])
            THEN {Threw(w)}
            ELSE LET suitableTiles ==
                         {c \in possibleTiles :
                             isSuitableTileForEntity(e.type, TileAt(w, Floor(c[1]), Floor(c[2])), FALSE)}
                 IN IF suitableTiles = {} THEN {Ok(w)}
                    ELSE {Ok([r.w EXCEPT !.heap[id].status = Append(@, "reproduced"),
                                         !.timers = Append(@, id)])
                            : r \in {spawnEntity(w, e.type, Floor(c[1]), Floor(c[2]), FALSE)
                                        : c \in {t \in suitableTiles : Len(w.heap) < MaxEntities}}}

\* reproduceEntity(entity): one outcome per tile Math.random() can choose.
\* The heap holds at most MaxEntities objects.
reproduceEntity(w, id) ==
    LET e == Ent(w, id)
        entityCount == getEntityCountByType(w, e.type)
        maxCount == getMaxEntityCount(w, e.type)
    IN IF entityCount >= maxCount THEN {Ok(w)}
       ELSE LET possibleTiles == getNearbyTiles(w, e.position.x, e.position.y, 2) IN
            IF \E c \in possibleTiles : ~RowDefined(w, c[1]) \/ ~ColDefined(w, c[2])
            THEN {Threw(w)}
            ELSE LET suitableTiles ==
                         {c \in possibleTiles :
                             isSuitableTileForEntity(e.type, TileAt(w, Floor(c[1]), Floor(c[2])), FALSE)}
                 IN IF suitableTiles = {} THEN {Ok(w)}
                    ELSE {Ok([r.w EXCEPT !.heap[id].status = Append(@, "reproduced"),
                                         !.timers = Append(@, id)])
                            : r \in {spawnEntity(w, e.type, Floor(c[1]), Floor(c[2]), FALSE)
                                        : c \in {t \in suitableTiles : Len(w.heap) < MaxEntities}}}

\* processLifecycleEvents(entity, delta): one outcome per result of the random draws
processLifecycleEvents(w, id, delta) ==
    LET e == Ent(w, id) IN
    IF e.type \in {"skeleton", "zombie"} THEN {Ok(w)}
    ELSE IF ~RowDefined(w, e.position.x) THEN {Threw(w)}
    ELSE LET w1 == SetEnt(w, id, [e EXCEPT !.age = @ + delta])
             a == Ent(w1, id)
             deathChance == w.deathProbability * delta
             reproductionChance ==
                 w.reproductionProbability * delta * getPopulationDensityMultiplier(w)
             canReproduce_ == a.age * 10 >= a.maxAge * 2 /\ a.age * 10 <= a.maxAge * 8
         IN IF a.age >= a.maxAge THEN {killEntity(w1, id, "old_age")}
            ELSE (IF deathChance > 0 THEN {killEntity(w1, id, "random")} ELSE {})
                 \cup
                 (IF deathChance >= 100000 THEN {}
                  ELSE IF a.health <= 0 THEN {killEntity(w1, id, "health")}
                  ELSE (IF canReproduce_ /\ reproductionChance > 0
                        THEN reproduceEntity(w1, id) ELSE {})
                       \cup
                       (IF canReproduce_ /\ reproductionChance >= 200000
                        THEN {} ELSE {Ok(w1)}))

\* the body of the loop of update: the AI, then the lifecycle events
ProcessEntity(w, id, delta) ==
    UNION {processLifecycleEvents(w1, id, delta) : w1 \in EntityAI_update(w, id, delta)}

\* update(delta): the Map is iterated in insertion order, entries added during the
\* iteration included; cur is the entry visited last
RECURSIVE UpdateFrom(_, _, _)
UpdateFrom(w, cur, delta) ==
    LET rest == {i \in w.entities : i > cur} IN
    IF rest = {} THEN {Ok(w)}
    ELSE LET id == CHOOSE i \in rest : \A j \in rest : i <= j
         IN UNION {IF r.threw THEN {r} ELSE UpdateFrom(r.w, id, delta)
                     : r \in ProcessEntity(w, id, delta)}

----------------------------------------------------------------------------
(* Pathfinder (src/utils/pathfinding.ts).  A tile is its coordinate pair;   *)
(* the search fields gCost, hCost, fCost (in 1/100) and parent of the tiles *)
(* are the function fields.  Terrain modifiers are counted in 1/10.         *)

Undefined == -1
Infinity == 1000000000

\* v || Infinity
OrInfinity(v) == IF v = Undefined \/ v = 0 THEN Infinity ELSE v

\* v || 0
OrZero(v) == IF v = Undefined THEN 0 ELSE v

GridTile(grid, t) == grid[t[1] + 1][t[2] + 1]

GridCoords(grid) == (0..(Len(grid) - 1)) \X (0..(Len(grid[1]) - 1))

\* the reset loop at the head of findPath
ResetFields(grid) ==
    [t \in GridCoords(grid) |->
        [gCost |-> Undefined, hCost |-> Undefined, fCost |-> Undefined, parent |-> NoTile]]

calculateHeuristic(a, b) == (Abs(a[1] - b[1]) + Abs(a[2] - b[2])) * 100

\* getNeighbors of pathfinding.ts: the neighbours in the order dx = -1..1, dy = -1..1
pathGetNeighbors(grid, t) ==
    LET offsets == << <<-1, -1>>, <<-1, 0>>, <<-1, 1>>, <<0, -1>>,
                      <<0, 1>>, <<1, -1>>, <<1, 0>>, <<1, 1>> >>
        all == [i \in 1..8 |-> <<t[1] + offsets[i][1], t[2] + offsets[i][2]>>]
    IN SelectSeq(all, LAMBDA n : n \in GridCoords(grid))

getTerrainModifier(biomeType, entityType) ==
    IF entityType = "fish"
    THEN (IF biomeType \in {"deep_ocean", "ocean", "shallow_water", "river", "lake"}
          THEN 10 ELSE 200)
    ELSE IF entityType = "bird" THEN 10
    ELSE CASE biomeType \in {"deep_ocean", "ocean"} -> 200
           [] biomeType \in {"shallow_water", "river", "lake"} -> 50
           [] biomeType \in {"beach", "rocky_shore"} -> 15
           [] biomeType \in {"mountains", "snow", "glacier"} -> 30
           [] biomeType \in {"hills", "volcanic"} -> 20
           [] biomeType \in {"desert", "badlands"} -> 15
           [] biomeType \in {"swamp", "marsh"} -> 25
           [] biomeType \in {"grassland", "savanna"} -> 10
           [] biomeType \in {"deciduous_forest", "coniferous_forest", "taiga",
                             "rainforest", "tropical_forest", "enchanted_forest"} -> 13
           [] OTHER -> 10

getMovementCost(grid, a, b, entityType) ==
    LET base == IF a[1] # b[1] /\ a[2] # b[2] THEN 140 ELSE 100
        cost == (base * getTerrainModifier(GridTile(grid, b).type, entityType)) \div 10
        heightDifference == Abs(GridTile(grid, b).height - GridTile(grid, a).height)
    IN cost + heightDifference * 2

isWalkableForEntity(tile, entityType) ==
    IF tile.walkable = FALSE THEN FALSE
    ELSE IF entityType = "fish"
    THEN tile.type \in {"deep_ocean", "ocean", "shallow_water", "river", "lake"}
    ELSE IF entityType = "bird" THEN TRUE
    ELSE IF entityType = "dragon" THEN TRUE
    ELSE IF tile.type \in {"deep_ocean", "ocean"} THEN FALSE
    ELSE TRUE

\* reconstructPath that stops at the tile after the start tile
RECURSIVE reconstructPathWithoutStart(_, _)
reconstructPathWithoutStart(fields, endTile) ==
    IF endTile = NoTile THEN << >>
    ELSE IF fields[endTile].parent = NoTile THEN << >>
    ELSE Append(reconstructPathWithoutStart(fields, fields[endTile].parent), endTile)

\* reconstructPath: follow the parent pointers back from the end tile
RECURSIVE reconstructPath(_, _)
reconstructPath(fields, endTile) ==
    IF endTile = NoTile THEN << >>
    ELSE Append(reconstructPath(fields, fields[endTile].parent), endTile)

\* the index of the open set chosen by the loop at lines 37-47
LowestIndex(fields, openSet) ==
    LET f(i) == OrInfinity(fields[openSet[i]].fCost)
        h(i) == OrInfinity(fields[openSet[i]].hCost)
        better(i, j) == f(i) < f(j) \/ (f(i) = f(j) /\ h(i) < h(j))
    IN CHOOSE i \in 1..Len(openSet) :
          /\ \A j \in 1..Len(openSet) : ~better(j, i)
          /\ \A j \in 1..(i - 1) : better(i, j)

\* the loop over the neighbours of the current tile: the open set and the fields after it
RECURSIVE ProcessNeighbors(_, _, _, _, _, _, _, _)
ProcessNeighbors(grid, neighbors, currentTile, targetTile, entityType, openSet, closedSet, fields) ==
    IF neighbors = << >> THEN [openSet |-> openSet, fields |-> fields]
    ELSE LET neighbor == Head(neighbors)
             rest == Tail(neighbors)
             inOpen == \E i \in 1..Len(openSet) : openSet[i] = neighbor
             tentativeGCost == OrZero(fields[currentTile].gCost)
                                 + getMovementCost(grid, currentTile, neighbor, entityType)
             hCost == calculateHeuristic(neighbor, targetTile)
         IN IF neighbor \in closedSet
            THEN ProcessNeighbors(grid, rest, currentTile, targetTile, entityType,
                                  openSet, closedSet, fields)
            ELSE IF ~isWalkableForEntity(GridTile(grid, neighbor), entityType)
            THEN ProcessNeighbors(grid, rest, currentTile, targetTile, entityType,
                                  openSet, closedSet, fields)
            ELSE IF ~inOpen \/ tentativeGCost < OrInfinity(fields[neighbor].gCost)
            THEN ProcessNeighbors(grid, rest, currentTile, targetTile, entityType,
                     IF inOpen THEN openSet ELSE Append(openSet, neighbor),
                     closedSet,
                     [fields EXCEPT ![neighbor] =
                         [gCost |-> tentativeGCost, hCost |-> hCost,
                          fCost |-> OrZero(tentativeGCost) + OrZero(hCost),
                          parent |-> currentTile]])
            ELSE ProcessNeighbors(grid, rest, currentTile, targetTile, entityType,
                                  openSet, closedSet, fields)

\* the while loop of findPath
RECURSIVE SearchFrom(_, _, _, _, _, _)
SearchFrom(grid, targetTile, entityType, openSet, closedSet, fields) ==
    IF Len(openSet) = 0 THEN << >>
    ELSE LET currentIndex == LowestIndex(fields, openSet)
             currentTile == openSet[currentIndex]
         IN IF currentTile = targetTile THEN reconstructPath(fields, currentTile)
            ELSE LET opened == SubSeq(openSet, 1, currentIndex - 1)
                                 \o SubSeq(openSet, currentIndex + 1, Len(openSet))
                     closed == closedSet \cup {currentTile}
                     r == ProcessNeighbors(grid, pathGetNeighbors(grid, currentTile),
                                           currentTile, targetTile, entityType,
                                           opened, closed, fields)
                 IN SearchFrom(grid, targetTile, entityType, r.openSet, closed, r.fields)

\* findPath(startTile, targetTile, tiles, entityType)
findPath(startTile, targetTile, grid, entityType) ==
    LET h == calculateHeuristic(startTile, targetTile)
        fields == [ResetFields(grid) EXCEPT ![startTile] =
                      [gCost |-> 0, hCost |-> h, fCost |-> h, parent |-> NoTile]]
    IN SearchFrom(grid, targetTile, entityType, <<startTile>>, {}, fields)

\* The search on tiles that carry the fields of an earlier search.  NoFields are the
\* fields of freshly created tiles.
NoFields == [gCost |-> Undefined, hCost |-> Undefined, fCost |-> Undefined, parent |-> NoTile]

\* the reset loop that leaves the fields as they are
KeepFields(grid, fields) == fields

\* the reset loop at the head of findPath (lines 13-21), applied to the fields left
\* on the tiles: x runs below tiles.length, y below tiles[0].length
ResetLoop(grid, fields) ==
    [t \in DOMAIN fields |->
        IF t[1] < Len(grid) /\ t[2] < Len(grid[1]) THEN NoFields ELSE fields[t]]

\* reconstructPath on fields that may hold stale parents: the while loop ends after
\* at most one step per tile unless the parents form a cycle, in which case it does
\* not end; that outcome is the sequence <<NoTile>>
RECURSIVE reconstructPathWithin(_, _, _)
reconstructPathWithin(fields, endTile, steps) ==
    IF endTile = NoTile THEN << >>
    ELSE IF steps = 0 THEN << NoTile >>
    ELSE LET front == reconstructPathWithin(fields, fields[endTile].parent, steps - 1)
         IN IF front = << NoTile >> THEN front ELSE Append(front, endTile)

\* the while loop of findPath, with the fields the tiles hold when it ends
RECURSIVE SearchOn(_, _, _, _, _, _)
SearchOn(grid, targetTile, entityType, openSet, closedSet, fields) ==
    IF Len(openSet) = 0 THEN [path |-> << >>, fields |-> fields]
    ELSE LET currentIndex == LowestIndex(fields, openSet)
             currentTile == openSet[currentIndex]
         IN IF currentTile = targetTile
            THEN [path |-> reconstructPathWithin(fields, currentTile,
                                                 Cardinality(GridCoords(grid))),
                  fields |-> fields]
            ELSE LET opened == SubSeq(openSet, 1, currentIndex - 1)
                                 \o SubSeq(openSet, currentIndex + 1, Len(openSet))
                     closed == closedSet \cup {currentTile}
                     r == ProcessNeighbors(grid, pathGetNeighbors(grid, currentTile),
                                           currentTile, targetTile, entityType,
                                           opened, closed, fields)
                 IN SearchOn(grid, targetTile, entityType, r.openSet, closed, r.fields)

\* findPath(startTile, targetTile, tiles, entityType) on tiles that carry left: the
\* reset loop, the three assignments to the start tile (parent is not assigned), the
\* search
findPathOn(left, startTile, targetTile, grid, entityType) ==
    LET h == calculateHeuristic(startTile, targetTile)
        reset == ResetLoop(grid, left)
        fields == [reset EXCEPT ![startTile].gCost = 0,
                                ![startTile].hCost = h,
                                ![startTile].fCost = h]
    IN SearchOn(grid, targetTile, entityType, <<startTile>>, {}, fields)

----------------------------------------------------------------------------
(* The state machine *)

SetWorld(w) ==
    /\ tiles' = w.tiles
    /\ entities' = w.entities
    /\ entityAIs' = w.entityAIs
    /\ heap' = w.heap
    /\ entityPopulationDensity' = w.entityPopulationDensity
    /\ reproductionProbability' = w.reproductionProbability
    /\ deathProbability' = w.deathProbability
    /\ timers' = w.timers

Call(op, type, x, y, delta, result, threw, zeroAtStart) ==
    [op |-> op, type |-> type, x |-> x, y |-> y, delta |-> delta, result |-> result,
     threw |-> threw, zeroAtStart |-> zeroAtStart, killed |-> << >>]

MakeTile(x, y, type, height, walkable, resources) ==
    [x |-> x, y |-> y, type |-> type, height |-> height, walkable |-> walkable,
     resources |-> resources, entities |-> << >>]

\* new EntityManager(tiles, scene, visualizationManager)
InitWith(grid) ==
    /\ tiles = grid
    /\ entities = {}
    /\ entityAIs = << >>
    /\ heap = << >>
    /\ entityPopulationDensity = "medium"
    /\ reproductionProbability = 10
    /\ deathProbability = 5
    /\ timers = << >>
    /\ updates = 0
    /\ last = Call("new", "", 0, 0, 0, NoEntity, FALSE, {})

\* spawnEntity(type, x, y), called by the user interface
SpawnEntity(type, x, y) ==
    /\ Len(heap) < MaxSpawns
    /\ \E roll \in BOOLEAN :
         LET r == spawnEntity(World, type, x, y, roll) IN
         /\ SetWorld(r.w)
         /\ last' = Call("spawnEntity", type, x, y, 0, r.result, FALSE, {})
    /\ UNCHANGED updates

\* setPopulationDensity(density)
SetPopulationDensity(density) ==
    /\ entityPopulationDensity' = density
    /\ reproductionProbability' = (CASE density = "low" -> 5 [] density = "medium" -> 10
                                     [] density = "high" -> 20)
    /\ deathProbability' = (CASE density = "low" -> 10 [] density = "medium" -> 5
                              [] density = "high" -> 2)
    /\ last' = Call("setPopulationDensity", density, 0, 0, 0, NoEntity, FALSE, {})
    /\ UNCHANGED <<tiles, entities, entityAIs, heap, timers, updates>>

\* update(delta), called once per frame
Update(delta) ==
    /\ \E r \in UpdateFrom(World, 0, delta) :
         /\ SetWorld(r.w)
         /\ last' = [Call("update", "", 0, 0, delta, NoEntity, r.threw,
                          {id \in entities : heap[id].health <= 0})
                        EXCEPT !.killed = r.w.killed]
    /\ updates' = updates + 1

\* entity.health = 0, written by the caller that holds the entity returned by
\* spawnEntity, getAllEntities or getEntityById
SetHealthToZero(id) ==
    /\ id \in getAllEntities(World)
    /\ getEntityById(World, id) = id
    /\ heap[id].health > 0
    /\ heap' = [heap EXCEPT ![id].health = 0]
    /\ last' = Call("setHealth", "", 0, 0, 0, id, FALSE, {})
    /\ UNCHANGED <<tiles, entities, entityAIs, entityPopulationDensity,
                   reproductionProbability, deathProbability, timers, updates>>

\* the setTimeout callback of reproduceEntity: remove one 'reproduced' from the parent
ReproducedTimeout ==
    /\ Len(timers) > 0
    /\ heap' = [heap EXCEPT ![Head(timers)].status = RemoveFirst(@, "reproduced")]
    /\ timers' = Tail(timers)
    /\ last' = Call("timeout", "", 0, 0, 0, Head(timers), FALSE, {})
    /\ UNCHANGED <<tiles, entities, entityAIs, entityPopulationDensity,
                   reproductionProbability, deathProbability, updates>>

\* findPath(startTile, targetTile, tiles, entityType), called on the request held in last
FindPath ==
    /\ last.op = "request"
    /\ last' = [op |-> "findPath", type |-> last.type, start |-> last.start,
                target |-> last.target,
                path |-> findPath(last.start, last.target, tiles, last.type)]
    /\ UNCHANGED <<tiles, entities, entityAIs, heap, entityPopulationDensity,
                   reproductionProbability, deathProbability, timers, updates>>

\* findPath called on the request held in last, on tiles that carry the fields left
\* by the searches before it; updates counts the searches
FindPathOnTiles ==
    /\ last.op = "request"
    /\ LET r == findPathOn(last.left, last.start, last.target, tiles, last.type) IN
       last' = [op |-> "findPath", type |-> last.type, start |-> last.start,
                target |-> last.target, path |-> r.path, left |-> r.fields]
    /\ updates' = updates + 1
    /\ UNCHANGED <<tiles, entities, entityAIs, heap, entityPopulationDensity,
                   reproductionProbability, deathProbability, timers>>

\* the caller's next request on the same tiles
RequestPath(startTile, targetTile) ==
    /\ last.op = "findPath"
    /\ last' = [op |-> "request", type |-> last.type, start |-> startTile,
                target |-> targetTile, left |-> last.left]
    /\ UNCHANGED <<tiles, entities, entityAIs, heap, entityPopulationDensity,
                   reproductionProbability, deathProbability, timers, updates>>

----------------------------------------------------------------------------
(* Specification Spec: spawning, the caller's kill and update on a strip    *)
(* of three tiles: a forest, a corrupted tile and a lake.                   *)

WorldMap ==
    << << MakeTile(0, 0, "deciduous_forest", 50, TRUE, << >>),
          MakeTile(0, 1, "corrupted", 50, TRUE, << >>),
          MakeTile(0, 2, "lake", 20, TRUE, << >>) >> >>

SpawnRequests == { <<"wolf", 0, 0>>, <<"zombie", 0, 1>> }

Deltas == {10, 4000}

Init == InitWith(WorldMap)

Next ==
    \/ \E q \in SpawnRequests : SpawnEntity(q[1], q[2], q[3])
    \/ updates < MaxUpdates /\ \E delta \in Deltas : Update(delta)
    \/ \E id \in entities : SetHealthToZero(id)

Spec == Init /\ [][Next]_vars

----------------------------------------------------------------------------
(* Specification SpecSpawn: the spawn API and the density setting on a map  *)
(* of several biomes, with requests inside and outside the grid.            *)

BiomeMap ==
    << << MakeTile(0, 0, "deciduous_forest", 50, TRUE, << >>),
          MakeTile(0, 1, "deep_ocean", 10, TRUE, << >>) >>,
       << MakeTile(1, 0, "grassland", 50, TRUE, << >>),
          MakeTile(1, 1, "grassland", 50, FALSE, << >>) >>,
       << MakeTile(2, 0, "grassland", 20, TRUE, << >>),
          MakeTile(2, 1, "volcanic", 80, TRUE, << >>) >> >>

SpawnTypes == {"wolf", "fish", "zombie", "dragon", "human", "rabbit"}

SpawnCoords == ((0..2) \X (0..1)) \cup {<<-1, 0>>, <<3, 1>>, <<0, 2>>}

InitSpawn == InitWith(BiomeMap)

NextSpawn ==
    \/ \E type \in SpawnTypes, c \in SpawnCoords : SpawnEntity(type, c[1], c[2])
    \/ \E d \in Density : SetPopulationDensity(d)

SpecSpawn == InitSpawn /\ [][NextSpawn]_vars

----------------------------------------------------------------------------
(* Specification SpecCap: bears reproducing on two forest tiles by a lake.  *)

ForestMap ==
    << << MakeTile(0, 0, "deciduous_forest", 50, TRUE, << >>),
          MakeTile(0, 1, "coniferous_forest", 50, TRUE, << >>),
          MakeTile(0, 2, "lake", 20, FALSE, << >>) >> >>

CapDeltas == {3400}

InitCap == InitWith(ForestMap)

NextCap ==
    \/ SpawnEntity("bear", 0, 0)
    \/ \E d \in {"low", "medium"} : SetPopulationDensity(d)
    \/ updates < MaxUpdates /\ \E delta \in CapDeltas : Update(delta)
    \/ ReproducedTimeout

SpecCap == InitCap /\ [][NextCap]_vars

----------------------------------------------------------------------------
(* Specification SpecNeeds: one human followed over a run of frames on a    *)
(* strip with a food tile and a lake, as the integration test follows one   *)
(* human.  The first MaxUpdates calls take a delta of either sign, the      *)
(* later ones the frame delta.                                             *)

NeedsMap ==
    << << MakeTile(0, 0, "grassland", 50, TRUE, << [type |-> "food", quantity |-> 20] >>),
          MakeTile(0, 1, "grassland", 50, TRUE, << >>),
          MakeTile(0, 2, "lake", 20, TRUE, << >>) >> >>

NeedsDeltas == {-4000, 0, 10, 4000}

FrameDeltas == {10}

InitNeeds == InitWith(NeedsMap)

NextNeeds ==
    \/ Len(heap) = 0 /\ SpawnEntity("human", 0, 1)
    \/ /\ updates < MaxFrames
       /\ \E delta \in (IF updates < MaxUpdates THEN NeedsDeltas ELSE FrameDeltas) :
             Update(delta)

SpecNeeds == InitNeeds /\ [][NextNeeds]_vars

----------------------------------------------------------------------------
(* Specification SpecPath: findPath on every 3 x 2 grid of four kinds of    *)
(* tile, for every start, target and three entity types.                    *)

PathKinds ==
    << [type |-> "grassland", height |-> 50, walkable |-> TRUE],
       [type |-> "grassland", height |-> 50, walkable |-> FALSE],
       [type |-> "ocean", height |-> 10, walkable |-> TRUE],
       [type |-> "lake", height |-> 20, walkable |-> TRUE] >>

PathCoords == (0..2) \X (0..1)

PathGrids ==
    { [x \in 1..3 |-> [y \in 1..2 |->
          MakeTile(x - 1, y - 1, PathKinds[k[<<x - 1, y - 1>>]].type,
                   PathKinds[k[<<x - 1, y - 1>>]].height,
                   PathKinds[k[<<x - 1, y - 1>>]].walkable, << >>)]]
        : k \in [PathCoords -> 1..Len(PathKinds)] }

PathTypes == {"wolf", "fish", "bird"}

InitPath ==
    /\ tiles \in PathGrids
    /\ entities = {}
    /\ entityAIs = << >>
    /\ heap = << >>
    /\ entityPopulationDensity = "medium"
    /\ reproductionProbability = 10
    /\ deathProbability = 5
    /\ timers = << >>
    /\ updates = 0
    /\ \E startTile \in PathCoords, targetTile \in PathCoords, entityType \in PathTypes :
          last = [op |-> "request", type |-> entityType, start |-> startTile,
                  target |-> targetTile]

NextPath == FindPath

SpecPath == InitPath /\ [][NextPath]_vars

----------------------------------------------------------------------------
(* Specification SpecHunger: a wolf and a zombie on the strip of Spec, with *)
(* a delta that takes the hunger of a zombie from 0.2 to 0.05.              *)

HungerDeltas == {10, 150}

InitHunger == InitWith(WorldMap)

NextHunger ==
    \/ \E q \in SpawnRequests : SpawnEntity(q[1], q[2], q[3])
    \/ updates < MaxUpdates /\ \E delta \in HungerDeltas : Update(delta)

SpecHunger == InitHunger /\ [][NextHunger]_vars

----------------------------------------------------------------------------
(* Specification SpecIdle: a wolf and a deer spawned on one forest tile,    *)
(* next to a food tile and a lake.  Two long calls run the needs down, a    *)
(* call with a negative delta then raises them by different amounts, so     *)
(* that every branch of the idle decision is taken.  Each entity is spawned *)
(* once, before the first update.                                           *)

IdleMap ==
    << << MakeTile(0, 0, "deciduous_forest", 50, TRUE, << >>),
          MakeTile(0, 1, "grassland", 50, TRUE, << [type |-> "food", quantity |-> 20] >>),
          MakeTile(0, 2, "lake", 20, TRUE, << >>) >> >>

IdleRequests == { <<"wolf", 0, 0>>, <<"deer", 0, 0>> }

RunDownDeltas == {10, 1000}

RaiseDeltas == {10, -250, -350}

InitIdle == InitWith(IdleMap)

NextIdle ==
    \/ /\ updates = 0
       /\ \E q \in IdleRequests :
             /\ \A id \in 1..Len(heap) : heap[id].type # q[1]
             /\ SpawnEntity(q[1], q[2], q[3])
    \/ /\ updates < MaxUpdates
       /\ \E delta \in (IF updates < 2 THEN RunDownDeltas ELSE RaiseDeltas) : Update(delta)

SpecIdle == InitIdle /\ [][NextIdle]_vars

----------------------------------------------------------------------------
(* Specification SpecDry: a human and a rabbit on a strip of grassland      *)
(* that has no water tile.                                                  *)

DryMap ==
    << << MakeTile(0, 0, "grassland", 50, TRUE, << >>),
          MakeTile(0, 1, "grassland", 50, TRUE, << >>),
          MakeTile(0, 2, "grassland", 50, TRUE, << >>) >> >>

DryRequests == { <<"human", 0, 1>>, <<"rabbit", 0, 0>> }

InitDry == InitWith(DryMap)

NextDry ==
    \/ \E q \in DryRequests : SpawnEntity(q[1], q[2], q[3])
    \/ updates < MaxUpdates /\ \E delta \in Deltas : Update(delta)

SpecDry == InitDry /\ [][NextDry]_vars

----------------------------------------------------------------------------
(* Specification SpecHunt: a human and a dragon on two mountain tiles next  *)
(* to a lake, followed over one run of update calls with positive deltas:   *)
(* a first decision, frames in which the human can walk to the lake, a long *)
(* call in which it starves, then a decision of the dragon, frames in which *)
(* it can walk to the lake and drink, the call in which hunger makes it     *)
(* hunt, and the frame of the strike.  Each entity is spawned once, at any  *)
(* point of the run.                                                        *)

HuntMap ==
    << << MakeTile(0, 0, "mountains", 50, TRUE, << >>),
          MakeTile(0, 1, "mountains", 50, TRUE, << >>),
          MakeTile(0, 2, "lake", 20, TRUE, << >>) >> >>

HuntRequests == { <<"human", 0, 1>>, <<"dragon", 0, 1>> }

Frames(n) == [i \in 1..n |-> 1]

HuntDeltas == <<10>> \o Frames(11) \o <<5800, 300>> \o Frames(8) \o <<450, 1>>

InitHunt == InitWith(HuntMap)

NextHunt ==
    \/ \E q \in HuntRequests :
          /\ \A id \in 1..Len(heap) : heap[id].type # q[1]
          /\ SpawnEntity(q[1], q[2], q[3])
    \/ updates < Len(HuntDeltas) /\ Update(HuntDeltas[updates + 1])

SpecHunt == InitHunt /\ [][NextHunt]_vars

----------------------------------------------------------------------------
(* Specification SpecGather: one human on a strip of grassland whose tiles  *)
(* hold the resource lists that generateResources builds (wood listed ahead *)
(* of food).  The deltas are a script: a decision, a long call that fills   *)
(* the waiting time of the gather step, the frames of the walk, and the     *)
(* same again for a second walk and gather step.                            *)

GatherMap ==
    << << MakeTile(0, 0, "grassland", 50, TRUE,
                   << [type |-> "wood", quantity |-> 10], [type |-> "food", quantity |-> 20] >>),
          MakeTile(0, 1, "grassland", 50, TRUE, << >>),
          MakeTile(0, 2, "grassland", 50, TRUE,
                   << [type |-> "food", quantity |-> 20] >>) >> >>

GatherDeltas == <<10, 30>> \o Frames(12) \o <<10>> \o Frames(32)

InitGather == InitWith(GatherMap)

NextGather ==
    \/ Len(heap) = 0 /\ SpawnEntity("human", 0, 1)
    \/ updates < Len(GatherDeltas) /\ Update(GatherDeltas[updates + 1])

SpecGather == InitGather /\ [][NextGather]_vars

----------------------------------------------------------------------------
(* Specification SpecSleep: one human between a food tile and a lake.  The  *)
(* scripted deltas take it four times to the lake and back to the food, so  *)
(* that thirst and hunger stay above their thresholds until rest has fallen *)
(* below 0.2; the calls after the script, made while it sleeps, take a      *)
(* short or a long delta.                                                   *)

SleepMap ==
    << << MakeTile(0, 0, "grassland", 50, TRUE, << [type |-> "food", quantity |-> 100] >>),
          MakeTile(0, 1, "lake", 20, TRUE, << >>) >> >>

RoundTrip == <<10>> \o Frames(12) \o <<380>> \o Frames(11)

SleepScript == RoundTrip \o RoundTrip \o RoundTrip \o RoundTrip \o <<10>>

SleepDeltas == {1, 200}

SleepCalls == 5

InitSleep == InitWith(SleepMap)

NextSleep ==
    \/ Len(heap) = 0 /\ SpawnEntity("human", 0, 0)
    \/ updates < Len(SleepScript) /\ Update(SleepScript[updates + 1])
    \/ /\ updates >= Len(SleepScript) /\ updates < Len(SleepScript) + SleepCalls
       /\ \E delta \in SleepDeltas : Update(delta)

SpecSleep == InitSleep /\ [][NextSleep]_vars

----------------------------------------------------------------------------
(* Specification SpecBreed: a bear and a rabbit on a strip on which the     *)
(* bear's only suitable tiles lie two tiles apart and the rabbit has no     *)
(* suitable tile but its own.                                               *)

BreedMap ==
    << << MakeTile(0, 0, "deciduous_forest", 50, TRUE, << >>),
          MakeTile(0, 1, "lake", 20, FALSE, << >>),
          MakeTile(0, 2, "coniferous_forest", 50, TRUE, << >>),
          MakeTile(0, 3, "grassland", 50, TRUE, << >>) >> >>

BreedRequests == { <<"bear", 0, 0>>, <<"rabbit", 0, 3>> }

\* the delta of the update call number n + 1: short and long calls alternate
BreedDelta(n) == IF n % 2 = 0 THEN 1000 ELSE 3400

InitBreed == InitWith(BreedMap)

NextBreed ==
    \/ \E q \in BreedRequests :
          /\ \A id \in 1..Len(heap) : heap[id].type # q[1]
          /\ SpawnEntity(q[1], q[2], q[3])
    \/ updates < MaxUpdates /\ Update(BreedDelta(updates))

SpecBreed == InitBreed /\ [][NextBreed]_vars

----------------------------------------------------------------------------
(* Specification SpecLeak: searches one after the other on the same tiles,  *)
(* on every 2 x 2 grid of three kinds of tile.                              *)

LeakKinds ==
    << [type |-> "grassland", height |-> 50, walkable |-> TRUE],
       [type |-> "grassland", height |-> 50, walkable |-> FALSE],
       [type |-> "lake", height |-> 20, walkable |-> TRUE] >>

LeakCoords == (0..1) \X (0..1)

LeakGrids ==
    { [x \in 1..2 |-> [y \in 1..2 |->
          MakeTile(x - 1, y - 1, LeakKinds[k[<<x - 1, y - 1>>]].type,
                   LeakKinds[k[<<x - 1, y - 1>>]].height,
                   LeakKinds[k[<<x - 1, y - 1>>]].walkable, << >>)]]
        : k \in [LeakCoords -> 1..Len(LeakKinds)] }

LeakTypes == {"wolf", "fish"}

MaxSearches == 2

InitLeak ==
    /\ tiles \in LeakGrids
    /\ entities = {}
    /\ entityAIs = << >>
    /\ heap = << >>
    /\ entityPopulationDensity = "medium"
    /\ reproductionProbability = 10
    /\ deathProbability = 5
    /\ timers = << >>
    /\ updates = 0
    /\ \E startTile \in LeakCoords, targetTile \in LeakCoords, entityType \in LeakTypes :
          last = [op |-> "request", type |-> entityType, start |-> startTile,
                  target |-> targetTile, left |-> [t \in LeakCoords |-> NoFields]]

NextLeak ==
    \/ FindPathOnTiles
    \/ /\ updates < MaxSearches
       /\ \E startTile \in LeakCoords, targetTile \in LeakCoords :
             RequestPath(startTile, targetTile)

SpecLeak == InitLeak /\ [][NextLeak]_vars

----------------------------------------------------------------------------
(* Specification SpecLife: repeated update calls with one fixed delta on a  *)
(* map of two rows without water.  The entities are spawned before the      *)
(* first call; the calls go on until an entity that ages by 0.01 * delta in *)
(* each of them has passed the largest maxAge of the types spawned.         *)

LifeMap ==
    << << MakeTile(0, 0, "grassland", 50, TRUE, << >>) >>,
       << MakeTile(1, 0, "grassland", 50, TRUE, << >>) >> >>

LifeRequests == { <<"human", 0, 0>>, <<"orc", 1, 0>>, <<"wolf", 1, 0>> }

\* 100 s, in 1/10 s
LifeDelta == 100 * 10

LifeCalls == createEntity(1, "human", 0, 0).maxAge \div LifeDelta

InitLife == InitWith(LifeMap)

LifeTick == updates < LifeCalls /\ Update(LifeDelta)

NextLife ==
    \/ /\ updates = 0
       /\ \E q \in LifeRequests :
             /\ \A id \in 1..Len(heap) : heap[id].type # q[1]
             /\ SpawnEntity(q[1], q[2], q[3])
    \/ LifeTick

SpecLife == InitLife /\ [][NextLife]_vars /\ WF_vars(LifeTick)

----------------------------------------------------------------------------
(* Claims *)

Population(type) == getEntityCountByType(World, type)
Capacity(type) == getMaxEntityCount(World, type)
HasStatus(e, tag) == \E i \in 1..Len(e.status) : e.status[i] = tag

\* C1: every entity whose health is <= 0 at the start of an update call carries the
\* 'dead' tag and is out of the store when the call ends (zombie and skeleton included).
C1_DeadRemovedByUpdate ==
    last.op = "update" =>
        \A id \in last.zeroAtStart : id \notin entities /\ HasStatus(heap[id], "dead")

\* C2: with the density setting unchanged, an update call that starts with every
\* population within its capacity ends with every population within its capacity.
C2_UpdateKeepsCapacity ==
    [][ ( /\ last'.op = "update"
          /\ entityPopulationDensity' = entityPopulationDensity
          /\ \A type \in EntityType : Population(type) <= Capacity(type) )
        => \A type \in EntityType : Population(type)' <= Capacity(type)' ]_vars

\* C2 witness: an update in which bears were born has filled the low-density capacity.
C2_Witness ==
    /\ last.op = "update"
    /\ entityPopulationDensity = "low"
    /\ Population("bear") = Capacity("bear")
    /\ \E id \in entities : HasStatus(heap[id], "reproduced")

\* C3: in every reachable state the population of each type is within the capacity
\* of the type under the current density setting.
C3_PopulationWithinCapacity ==
    \A type \in EntityType : Population(type) <= Capacity(type)

NeedInRange(n) == n >= 0 /\ n <= 10000

C5_HealthAtMostMax ==
    \A id \in entities : heap[id].health <= heap[id].maxHealth

\* C6: every entity in the store at the end of an update call has health >= 0.
C6_HealthNonNegative ==
    last.op = "update" => \A id \in entities : heap[id].health >= 0

\* C7: the age of an entity never decreases from one state to the next while the
\* entity is in the store (every delta is >= 0).
C7_AgeMonotone ==
    [][ \A id \in entities \cap entities' : heap'[id].age >= heap[id].age ]_vars

\* C7 witness: an update with a positive delta has aged an entity that is still stored.
C7_Witness ==
    /\ last.op = "update"
    /\ last.delta > 0
    /\ \E id \in entities : heap[id].age > 0

StoreUnchanged ==
    /\ entities' = entities
    /\ entityAIs' = entityAIs
    /\ heap' = heap
    /\ tiles' = tiles

SameRequestAgain ==
    /\ last.op = "spawnEntity" /\ last.result = NoEntity
    /\ last'.op = "spawnEntity"
    /\ last'.type = last.type /\ last'.x = last.x /\ last'.y = last.y

RequestOutside(c) == ~InGrid(World, c.x, c.y)

\* the request names a tile on which the predicate rejects the type whatever the draw
RequestRejected(c) ==
    /\ InGrid(World, c.x, c.y)
    /\ ~isSuitableTileForEntity(c.type, TileAt(World, c.x, c.y), TRUE)

\* the request names a tile on which the predicate depends on Math.random()
RequestRandom(c) ==
    /\ InGrid(World, c.x, c.y)
    /\ SuitabilityIsRandom(c.type, TileAt(World, c.x, c.y))

\* C8 as stated: a spawn request outside the grid or on an unsuitable tile returns
\* null and changes nothing, and repeating a rejected request gives null again.
C8_RejectedSpawnIdempotent ==
    [][ /\ (last'.op = "spawnEntity" /\ (RequestOutside(last') \/ RequestRejected(last')))
            => last'.result = NoEntity
        /\ (last'.op = "spawnEntity" /\ last'.result = NoEntity) => StoreUnchanged
        /\ SameRequestAgain => last'.result = NoEntity ]_vars

\* C8 amended: as C8, but a repeated rejected request gives null again only when the
\* predicate does not draw from Math.random() (zombie and skeleton on a walkable land
\* tile other than 'corrupted' may be accepted by the repeat).
C8_RejectedSpawnNoOp ==
    [][ /\ (last'.op = "spawnEntity" /\ (RequestOutside(last') \/ RequestRejected(last')))
            => last'.result = NoEntity
        /\ (last'.op = "spawnEntity" /\ last'.result = NoEntity) => StoreUnchanged
        /\ (SameRequestAgain /\ ~RequestRandom(last')) => last'.result = NoEntity ]_vars

\* C8 witness: a request on a tile unsuitable for the type was rejected while
\* entities were stored.
C8_Witness ==
    /\ last.op = "spawnEntity"
    /\ last.result = NoEntity
    /\ RequestRejected(last)
    /\ entities # {}

\* the request names a walkable tile on which the predicate accepts the type whatever the draw
RequestSuitable(c) ==
    /\ InGrid(World, c.x, c.y)
    /\ TileAt(World, c.x, c.y).walkable
    /\ isSuitableTileForEntity(c.type, TileAt(World, c.x, c.y), FALSE)

\* C9: spawnEntity on an in-bounds walkable suitable tile returns an entity of the
\* requested type at exactly (x, y), adds one entity to the store and lists it on
\* tiles[x][y]; a wolf on a forest tile is spawned there, a wolf on deep_ocean is not.
C9_SuccessfulSpawn ==
    [][ last'.op = "spawnEntity" =>
          /\ RequestSuitable(last') => last'.result # NoEntity
          /\ last'.result # NoEntity =>
                /\ last'.result \in entities' \ entities
                /\ Cardinality(entities') = Cardinality(entities) + 1
                /\ heap'[last'.result].type = last'.type
                /\ heap'[last'.result].position = [x |-> last'.x * 100, y |-> last'.y * 100]
                /\ \E i \in 1..Len(tiles'[last'.x + 1][last'.y + 1].entities) :
                       tiles'[last'.x + 1][last'.y + 1].entities[i] = last'.result
          /\ (/\ last'.type = "wolf"
              /\ InGrid(World, last'.x, last'.y)
              /\ TileAt(World, last'.x, last'.y).type = "deep_ocean")
                => last'.result = NoEntity ]_vars

\* C9 witness: a wolf was spawned on the walkable forest tile, next to an earlier entity.
C9_Witness ==
    /\ last.op = "spawnEntity"
    /\ last.type = "wolf"
    /\ last.result # NoEntity
    /\ IncludesForest(TileAt(World, last.x, last.y).type)
    /\ Cardinality(entities) > 1

\* C10: spawnEntity('fish', x, y) on a grassland tile returns null under every density.
C10_NoFishOnGrassland ==
    ( /\ last.op = "spawnEntity"
      /\ last.type = "fish"
      /\ InGrid(World, last.x, last.y)
      /\ TileAt(World, last.x, last.y).type = "grassland" )
    => last.result = NoEntity

\* the tile is one the type cannot traverse
NonTraversable(grid, t, entityType) == ~isWalkableForEntity(GridTile(grid, t), entityType)

\* every neighbour of the goal on the grid is non-traversable for the type
GoalEnclosed(grid, targetTile, entityType) ==
    \A i \in 1..Len(pathGetNeighbors(grid, targetTile)) :
        NonTraversable(grid, pathGetNeighbors(grid, targetTile)[i], entityType)

\* C11: findPath with start # goal returns the empty sequence whenever every
\* neighbour of the goal is non-traversable for the requesting type.
C11_EnclosedGoalGivesEmptyPath ==
    ( /\ last.op = "findPath"
      /\ last.start # last.target
      /\ GoalEnclosed(tiles, last.target, last.type) )
    => last.path = << >>

\* C12: update(0) changes no entity's position, needs, health, age, status, inventory
\* or AI state, and neither adds nor removes entities.
C12_UpdateZeroIsNoOp ==
    [][ (last'.op = "update" /\ last'.delta = 0) =>
          /\ entities' = entities
          /\ \A id \in entities :
                /\ heap'[id] = heap[id]
                /\ entityAIs'[id].currentState = entityAIs[id].currentState ]_vars

\* C13: an entity in the store with hunger = 0.05 before an update(dt = 1) call has
\* strictly lower health after the call, whether or not the call removes it.
C13_HungryEntityLosesHealth ==
    [][ (last'.op = "update" /\ last'.delta = 10) =>
          \A id \in entities :
              heap[id].needs.hunger = 500 => heap'[id].health < heap[id].health ]_vars

\* C14: the capacity of a type is floor(base * m) with m = 0.5, 1, 2 for the low,
\* medium and high density setting; a human has capacity 50 under low and 200 under
\* high; the capacity of every type is monotone in the density setting.
C14_CapacityIsFloorOfBaseTimesMultiplier ==
    /\ \A type \in EntityType :
          Capacity(type) = (baseMaxCounts(type) * getPopulationDensityMultiplier(World)) \div 2
    /\ baseMaxCounts("human") = 100 /\ baseMaxCounts("elf") = 80
    /\ baseMaxCounts("wolf") = 30 /\ baseMaxCounts("dragon") = 3
    /\ entityPopulationDensity = "low" => Capacity("human") = 50
    /\ entityPopulationDensity = "high" => Capacity("human") = 200
    /\ \A type \in EntityType :
          /\ MaxEntityCountFor(type, "low") <= MaxEntityCountFor(type, "medium")
          /\ MaxEntityCountFor(type, "medium") <= MaxEntityCountFor(type, "high")

C14_Witness ==
    /\ last.op = "setPopulationDensity"
    /\ entityPopulationDensity = "low"
    /\ Capacity("human") = 50
    /\ Capacity("dragon") = 1

\* the idle decision of the update call was taken for a need: the entity sleeps, or
\* walks to a water or food tile chosen by findWaterSource or findFoodSource
NeedDrivenDecision(ai) ==
    \/ ai.currentState = "sleeping"
    \/ ai.currentState = "moving" /\ ai.targetTile # NoTile /\ ai.path = << >>

\* no need of the entity is below the threshold of handleIdleState
NeedsAboveThresholds(e) ==
    e.needs.thirst >= 3000 /\ e.needs.hunger >= 3000 /\ e.needs.rest >= 2000

\* C15: within one update call the per-entity order is AI decision, lifecycle checks,
\* needs decay: the idle decision of the call reads the needs as the previous call
\* left them, and the lifecycle health check does not see the health lost to the
\* needs in the same call.
C15_DecisionThenLifecycleThenNeeds ==
    [][ last'.op = "update" =>
          \A id \in entities :
              /\ ( /\ heap[id].health > 0
                   /\ entityAIs[id].currentState = "idle"
                   /\ NeedsAboveThresholds(heap[id])
                   /\ id \in entities' )
                 => ~NeedDrivenDecision(entityAIs'[id])
              /\ heap[id].health > 0 =>
                    \A i \in 1..Len(last'.killed) : last'.killed[i] # <<id, "health">> ]_vars

\* C16: in every update call an entity is handled by the AI controller, then by the
\* needs model, then by the lifecycle manager: the state handler of the call runs on
\* the needs as they were before the decay of the call, and the lifecycle checks see
\* the health left by both, so that an entity left with health <= 0 by a call that
\* returns is removed by it.
C16_ControllerThenNeedsThenLifecycle ==
    [][ last'.op = "update" =>
          \A id \in entities :
              /\ ( /\ heap[id].health > 0
                   /\ entityAIs[id].currentState = "idle"
                   /\ NeedsAboveThresholds(heap[id])
                   /\ id \in entities' )
                 => ~NeedDrivenDecision(entityAIs'[id])
              /\ ( /\ heap[id].health > 0
                   /\ heap'[id].health <= 0
                   /\ ~last'.threw )
                 => id \notin entities' ]_vars

\* C17: the death cause of an entity is resolved in the order health, old_age,
\* random: an entity removed by an update call with health <= 0 is removed with
\* cause 'health', whatever its age and the random draw, and one removed with
\* health > 0 and age >= maxAge is removed with cause 'old_age'.  Stated for the
\* first removal of every update call.
C17_DeathCausePriority ==
    [][ last'.op = "update" =>
          \A i \in 1..Len(last'.killed) :
              LET e == heap'[last'.killed[i][1]]
                  cause == last'.killed[i][2]
              IN /\ e.health <= 0 => cause = "health"
                 /\ (e.health > 0 /\ e.age >= e.maxAge) => cause = "old_age"
                 /\ cause = "old_age" => e.age >= e.maxAge ]_vars

\* the age added to an entity by one pass of the loop of update: updateNeeds adds
\* delta for an entity with health > 0, processLifecycleEvents adds delta for a
\* type other than zombie and skeleton
AgeAddedByOnePass(e, delta) ==
    (IF e.health > 0 THEN delta ELSE 0) + (IF e.type \in {"skeleton", "zombie"} THEN 0 ELSE delta)

\* C18: structural changes made while update iterates are deferred to the end of
\* the iteration: an entity created by reproduction during the call gets no AI
\* update and no lifecycle processing in that call (it leaves the call as createEntity
\* made it), and every entity present at the start is processed exactly once.
C18_StructuralChangesDeferred ==
    [][ last'.op = "update" =>
          /\ \A id \in (Len(heap) + 1)..Len(heap') :
                /\ heap'[id].age = 0
                /\ heap'[id].needs = createEntity(id, heap'[id].type, 0, 0).needs
                /\ id \in entities'
          /\ \A id \in entities :
                heap'[id].age = heap[id].age + AgeAddedByOnePass(heap[id], last'.delta) ]_vars

\* the tiles whose occupancy list holds the entity id
TilesListing(grid, id) ==
    {t \in GridCoords(grid) : \E k \in 1..Len(GridTile(grid, t).entities) :
                                  GridTile(grid, t).entities[k] = id}

\* C19: an entity removed during an update call is, at the end of the call, absent
\* from the store and from the AI map, and no tile lists it, wherever it has moved.
C19_RemovedEntityIsGoneEverywhere ==
    [][ last'.op = "update" =>
          \A id \in (entities \cup ((Len(heap) + 1)..Len(heap'))) \ entities' :
              /\ id \notin DOMAIN entityAIs'
              /\ TilesListing(tiles', id) = {} ]_vars

\* how often the occupancy list of tile t holds the entity id
TimesListed(grid, t, id) ==
    Cardinality({k \in 1..Len(GridTile(grid, t).entities) : GridTile(grid, t).entities[k] = id})

\* C20: in every reachable state each stored entity is listed in the occupancy list
\* of exactly one tile, the tile at (floor(position.x), floor(position.y)).
C20_ListedOnTileOfPosition ==
    \A id \in entities :
        /\ TilesListing(tiles, id) = {<<Floor(heap[id].position.x), Floor(heap[id].position.y)>>}
        /\ \A t \in TilesListing(tiles, id) : TimesListed(tiles, t, id) = 1

\* C21: update never raises: after successful spawns at integer in-bounds
\* coordinates and any sequence of update(dt >= 0) calls, every update call completes
\* normally, also when an entity is part-way through a move while its lifecycle
\* checks, its reproduction tile search or its removal run.
C21_UpdateNeverRaises ==
    last.op = "update" => ~last.threw

\* the fields of an entity that a dying entity's controller must leave alone
SameBody(a, b) ==
    a.position = b.position /\ a.needs = b.needs /\ a.inventory = b.inventory

\* C22: the AI controller of a spawned entity starts in idle, and dying is terminal:
\* an entity that is dying stays dying in every later update call while it is in the
\* store, no update changes its position, needs or inventory, and while all stored
\* entities are dying no update changes the position, needs, inventory or health of
\* any entity.
C22_IdleFirstDyingTerminal ==
    [][ /\ (last'.op = "spawnEntity" /\ last'.result # NoEntity)
            => entityAIs'[last'.result].currentState = "idle"
        /\ last'.op = "update" =>
             /\ \A id \in entities :
                   entityAIs[id].currentState = "dying" =>
                       /\ id \in entities' => entityAIs'[id].currentState = "dying"
                       /\ SameBody(heap'[id], heap[id])
             /\ (\A id \in entities : entityAIs[id].currentState = "dying") =>
                   \A o \in 1..Len(heap) :
                       /\ SameBody(heap'[o], heap[o])
                       /\ o \notin entities => heap'[o].health = heap[o].health ]_vars

C22_Witness ==
    /\ last.op = "update"
    /\ \E id \in entities :
          /\ entityAIs[id].currentState = "dying"
          /\ Len(SelectSeq(heap[id].status, LAMBDA t : t = "dead")) >= 2

\* C23: getAllEntities() and getEntityById(id) return immutable snapshots: a write of
\* the caller to a returned record (health set to 0) changes no entity of the store.
C23_AccessorsReturnSnapshots ==
    [][ last'.op = "setHealth" => \A id \in entities : heap'[id] = heap[id] ]_vars

\* the update call ran the idle decision of the entity: it was alive and idle, the
\* waiting time was over, and it is still in the store
DecisionTick(id) ==
    /\ last'.op = "update"
    /\ id \in entities /\ id \in entities'
    /\ heap[id].health > 0
    /\ entityAIs[id].currentState = "idle"
    /\ entityAIs[id].ticksSinceLastAction + last'.delta >= 10

\* the controller hunts, or walks to a tile chosen by findFoodSource
SeeksFood(grid, ai) ==
    \/ ai.currentState = "hunting"
    \/ /\ ai.currentState = "moving" /\ ai.path = << >> /\ ai.targetTile # NoTile
       /\ GridTile(grid, ai.targetTile).type \notin WaterBiomes

\* C24: the idle decision tests thirst < 0.3, then hunger < 0.3, then rest < 0.2, and
\* the first match wins: with thirst < 0.3 the entity starts neither hunting nor
\* food-seeking nor sleeping; with thirst >= 0.3 and hunger < 0.3 it does not sleep;
\* with thirst >= 0.3, hunger >= 0.3 and rest < 0.2 it sleeps.  The decision reads the
\* needs the call leaves on the entity.
C24_IdleDecisionPriority ==
    [][ \A id \in entities :
          DecisionTick(id) =>
              LET n == heap'[id].needs
                  ai == entityAIs'[id]
              IN /\ n.thirst < 3000 =>
                       ~SeeksFood(tiles', ai) /\ ai.currentState # "sleeping"
                 /\ (n.thirst >= 3000 /\ n.hunger < 3000) => ai.currentState # "sleeping"
                 /\ (n.thirst >= 3000 /\ n.hunger >= 3000 /\ n.rest < 2000)
                       => ai.currentState = "sleeping" ]_vars

C24_Witness ==
    /\ last.op = "update"
    /\ \E id \in entities :
          /\ entityAIs[id].currentState = "sleeping"
          /\ heap[id].needs.rest < 2000
          /\ heap[id].needs.thirst >= 3000
          /\ heap[id].needs.hunger >= 3000

\* C25: at an idle decision with thirst < 0.3 the entity, if the map has a water
\* tile, becomes moving with a water tile as its target, and otherwise stays idle
\* with its target and path unchanged.
C25_ThirstDecision ==
    [][ \A id \in entities :
          (DecisionTick(id) /\ heap'[id].needs.thirst < 3000) =>
              IF Len(findTilesByType(World, WaterBiomes)) > 0
              THEN /\ entityAIs'[id].currentState = "moving"
                   /\ entityAIs'[id].targetTile # NoTile
                   /\ GridTile(tiles, entityAIs'[id].targetTile).type \in WaterBiomes
              ELSE /\ entityAIs'[id].currentState = "idle"
                   /\ entityAIs'[id].targetTile = entityAIs[id].targetTile
                   /\ entityAIs'[id].path = entityAIs[id].path ]_vars

\* the controller is in the moving episode that findWaterSource starts: it walks to a
\* water tile that the thirst decision chose (moveRandomly would have set the path)
WalksToChosenWater(grid, ai) ==
    /\ ai.currentState = "moving" /\ ai.path = << >> /\ ai.targetTile # NoTile
    /\ GridTile(grid, ai.targetTile).type \in WaterBiomes

\* C26: an entity whose thirst decision chose a water tile makes progress towards it
\* under repeated update(dt > 0) calls: it does not fall back from that moving episode
\* to idle at an unchanged position (and so, unless removed, eventually arrives and
\* has its thirst restored to 1).
C26_ProgressTowardsWater ==
    [][ (last'.op = "update" /\ last'.delta > 0) =>
          \A id \in entities :
              ( /\ id \in entities'
                /\ heap[id].health > 0
                /\ WalksToChosenWater(tiles, entityAIs[id])
                /\ canEntityWalkOnBiome(heap[id].type, GridTile(tiles, entityAIs[id].targetTile).type)
                /\ GridTile(tiles, entityAIs[id].targetTile).walkable )
              => ~( /\ entityAIs'[id].currentState = "idle"
                    /\ heap'[id].position = heap[id].position ) ]_vars

\* the living predators of entity id that stand at its very position, which is
\* within every radius
ThreatsAt(id) ==
    {p \in entities \cap entities' :
        /\ heap[id].type \in getPreyTypes(heap[p].type)
        /\ heap[p].health > 0 /\ heap'[p].health > 0
        /\ heap[p].position = heap[id].position
        /\ heap'[p].position = heap'[id].position}

\* C27: at an idle decision of a prey entity with thirst >= 0.3, hunger >= 0.3 and
\* rest >= 0.2 and a living predator of its type within the radius, the entity becomes
\* fleeing with that predator as its target.
C27_PreyFlees ==
    [][ \A id \in entities :
          ( /\ DecisionTick(id)
            /\ NeedsAboveThresholds(heap'[id])
            /\ ThreatsAt(id) # {} )
          => /\ entityAIs'[id].currentState = "fleeing"
             /\ entityAIs'[id].targetEntity \in ThreatsAt(id) ]_vars

\* the squared distance between two entities, in 1/100 tile
SquaredDistance(a, b) ==
    (a.position.x - b.position.x) * (a.position.x - b.position.x)
      + (a.position.y - b.position.y) * (a.position.y - b.position.y)

\* the number of 'wounded' tags of an entity, one per strike it has taken
Wounds(e) == Len(SelectSeq(e.status, LAMBDA t : t = "wounded"))

\* the stored, living entities that the update call finds hunting a target
Hunters == {h \in entities : /\ heap[h].health > 0
                             /\ entityAIs[h].currentState = "hunting"
                             /\ entityAIs[h].targetEntity # NoEntity}

\* C28: while a hunter's living target is farther away than the strike range of one
\* tile, each update moves the hunter towards it: its distance to a target that does
\* not move strictly decreases (so that it eventually strikes).
C28_HunterApproaches ==
    [][ last'.op = "update" =>
          \A h \in Hunters :
              LET t == entityAIs[h].targetEntity IN
              ( /\ h \in entities' /\ t \in entities /\ t \in entities'
                /\ heap[t].health > 0
                /\ SquaredDistance(heap[h], heap[t]) > 10000
                /\ heap'[t].position = heap[t].position )
              => SquaredDistance(heap'[h], heap'[t]) < SquaredDistance(heap[h], heap[t]) ]_vars

\* C29: when the strike of a hunter brings the health of its target from above 0 to
\* 0 or below, the same update call sets the hunter's hunger to 1, clears its target
\* and makes it idle.
C29_KillFeedsHunter ==
    [][ last'.op = "update" =>
          \A h \in Hunters :
              LET t == entityAIs[h].targetEntity IN
              ( /\ h \in entities' /\ t \in entities
                /\ Wounds(heap'[t]) > Wounds(heap[t])
                /\ heap'[t].health <= 0
                /\ heap'[t].health + heap[h].attributes.strength * 200 > 0 )
              => /\ heap'[h].needs.hunger = 10000
                 /\ entityAIs'[h].targetEntity = NoEntity
                 /\ entityAIs'[h].currentState = "idle" ]_vars

\* C30: a hunter never acts on an entity that has left the store: an update call that
\* finds a hunter with a target that is no longer stored neither damages that entity
\* nor tags it 'wounded' nor adds food to the hunter's inventory.
C30_NoStrikeOnRemovedTarget ==
    [][ last'.op = "update" =>
          \A h \in Hunters :
              LET t == entityAIs[h].targetEntity IN
              t \notin entities =>
                  /\ heap'[t].health = heap[t].health
                  /\ Wounds(heap'[t]) = Wounds(heap[t])
                  /\ heap'[h].inventory = heap[h].inventory ]_vars

\* the quantity of a resource type in a list of resource entries (tile or inventory)
QuantityOf(resources, type) ==
    LET held == SelectSeq(resources, LAMBDA r : r.type = type)
    IN IF Len(held) = 0 THEN 0 ELSE held[1].quantity

ResourceType == {"wood", "stone", "food", "iron", "gold", "mana"}

\* the update call runs the gather step of id: the entity is stored and alive, its
\* controller is gathering with a target tile, and the waiting time is over
GatherStep(id) ==
    /\ last'.op = "update"
    /\ id \in entities /\ id \in entities'
    /\ heap[id].health > 0
    /\ entityAIs[id].currentState = "gathering"
    /\ entityAIs[id].targetTile # NoTile
    /\ entityAIs[id].ticksSinceLastAction + last'.delta >= 20

\* C31: a gather step on a tile that holds food with quantity > 0 takes food from the
\* tile (at most one unit), adds it to the inventory, raises hunger (capped at 1) and
\* returns to idle; it takes no resource of another type, whatever the list order.
C31_GatherTakesFood ==
    [][ \A id \in entities :
          LET t == entityAIs[id].targetTile IN
          (GatherStep(id) /\ HasResource(Tile(World, t), "food")) =>
              LET before == TileAt(World, t[1], t[2]).resources
                  after == tiles'[t[1] + 1][t[2] + 1].resources
                  taken == QuantityOf(before, "food") - QuantityOf(after, "food")
              IN /\ taken > 0 /\ taken <= 10
                 /\ QuantityOf(heap'[id].inventory, "food")
                       = QuantityOf(heap[id].inventory, "food") + taken
                 /\ \A r \in ResourceType \ {"food"} :
                       /\ QuantityOf(after, r) = QuantityOf(before, r)
                       /\ QuantityOf(heap'[id].inventory, r) = QuantityOf(heap[id].inventory, r)
                 /\ heap'[id].needs.hunger > heap[id].needs.hunger
                       \/ heap'[id].needs.hunger = 10000
                 /\ entityAIs'[id].currentState = "idle" ]_vars

\* C32: a gather step removes from each resource entry of the tile exactly the quantity
\* it adds to the gatherer's inventory entry of the same type; no tile quantity is ever
\* negative, and after a gather step the tile's list has no entry with quantity <= 0.
C32_GatheringConserves ==
    [][ /\ \A x \in 1..Len(tiles') : \A y \in 1..Len(tiles'[x]) :
              \A i \in 1..Len(tiles'[x][y].resources) : tiles'[x][y].resources[i].quantity >= 0
        /\ \A id \in entities :
              LET t == entityAIs[id].targetTile IN
              GatherStep(id) =>
                  LET before == TileAt(World, t[1], t[2]).resources
                      after == tiles'[t[1] + 1][t[2] + 1].resources
                  IN /\ \A r \in ResourceType :
                           QuantityOf(before, r) - QuantityOf(after, r)
                              = QuantityOf(heap'[id].inventory, r) - QuantityOf(heap[id].inventory, r)
                     /\ \A i \in 1..Len(after) : after[i].quantity > 0 ]_vars

\* C32 witness: two gather steps on the tile (0, 0) have taken its last unit of wood,
\* whose entry is gone, and then one of its two units of food, and both are in the
\* gatherer's inventory.
C32_Witness ==
    /\ last.op = "update"
    /\ tiles[1][1].resources = << [type |-> "food", quantity |-> 10] >>
    /\ \E id \in entities : /\ QuantityOf(heap[id].inventory, "wood") = 10
                             /\ QuantityOf(heap[id].inventory, "food") = 10

\* the update call runs the sleeping handler of id: the entity is stored before and
\* after the call, alive, and its controller is sleeping
SleepStep(id) ==
    /\ last'.op = "update"
    /\ id \in entities /\ id \in entities'
    /\ heap[id].health > 0
    /\ entityAIs[id].currentState = "sleeping"

\* C33: a sleeping entity gains rest in every update call, and a call that returns it
\* to idle leaves its rest at or above the level 0.2 below which sleep is entered (the
\* wake threshold lies above that level), whatever the delta.
C33_WakesRested ==
    [][ \A id \in entities :
          SleepStep(id) =>
              /\ heap'[id].needs.rest > heap[id].needs.rest \/ heap'[id].needs.rest = 10000
              /\ entityAIs'[id].currentState \in {"sleeping", "idle"}
              /\ entityAIs'[id].currentState = "idle" => heap'[id].needs.rest >= 2000 ]_vars

\* the update call makes the moving entity id arrive at its target tile: the last
\* tile of its path is the target and lies within 0.1 of its position
ArrivesAtTarget(id) ==
    /\ last'.op = "update"
    /\ id \in entities /\ id \in entities'
    /\ heap[id].health > 0
    /\ entityAIs[id].currentState = "moving"
    /\ entityAIs[id].targetTile # NoTile
    /\ entityAIs[id].path = << entityAIs[id].targetTile >>
    /\ Dist2(heap[id], entityAIs[id].targetTile[1] * 100, entityAIs[id].targetTile[2] * 100) < 100

\* C34: a moving entity that arrives at a target tile of a water biome (deep_ocean,
\* ocean, shallow_water, river, lake) has its thirst set to 1 and is tagged 'drinking'.
C34_ArrivalAtWaterDrinks ==
    [][ \A id \in entities :
          ( /\ ArrivesAtTarget(id)
            /\ GridTile(tiles, entityAIs[id].targetTile).type \in WaterBiomes )
          => /\ heap'[id].needs.thirst = 10000
             /\ \E i \in 1..Len(heap'[id].status) : heap'[id].status[i] = "drinking" ]_vars

\* the number of 'reproduced' tags that the update call has added to the entity object p
\* (an object created by the call had none before)
NewReproducedTags(p) ==
    Len(SelectSeq(heap'[p].status, LAMBDA t : t = "reproduced"))
      - (IF p <= Len(heap)
         THEN Len(SelectSeq(heap[p].status, LAMBDA t : t = "reproduced")) ELSE 0)

RECURSIVE ReproductionEvents(_)
ReproductionEvents(n) ==
    IF n = 0 THEN 0 ELSE NewReproducedTags(n) + ReproductionEvents(n - 1)

\* child was born to parent in this update call: same type, the parent was tagged,
\* its age is within [0.2, 0.8] * maxAge, and the child's tile is in bounds, suitable
\* for the type, within Chebyshev distance 2 of the parent's tile and not that tile
BornTo(child, parent) ==
    LET c == heap'[child]
        p == heap'[parent]
        dx == c.position.x - p.position.x
        dy == c.position.y - p.position.y
    IN /\ c.type = p.type
       /\ NewReproducedTags(parent) > 0
       /\ p.age * 10 >= p.maxAge * 2 /\ p.age * 10 <= p.maxAge * 8
       /\ dx \in {-200, -100, 0, 100, 200} /\ dy \in {-200, -100, 0, 100, 200}
       /\ <<dx, dy>> # <<0, 0>>
       /\ InGrid(World, c.position.x \div 100, c.position.y \div 100)
       /\ c.position.x % 100 = 0 /\ c.position.y % 100 = 0
       /\ isSuitableTileForEntity(c.type,
              TileAt(World, c.position.x \div 100, c.position.y \div 100), FALSE)

\* C35: every entity created by an update call was born to a parent whose age is in
\* [0.2, 0.8] * maxAge, has the parent's type and stands on an in-bounds suitable tile
\* within Chebyshev distance 2 of the parent's tile, never on that tile; every
\* reproduction creates exactly one entity and tags the parent 'reproduced', and
\* without a suitable tile nothing is created and no parent is tagged.
C35_ReproductionEvent ==
    [][ last'.op = "update" =>
          /\ \A child \in (Len(heap) + 1)..Len(heap') :
                \E parent \in (1..Len(heap')) \ {child} : BornTo(child, parent)
          /\ ReproductionEvents(Len(heap')) = Len(heap') - Len(heap)
          /\ \A p \in 1..Len(heap') : NewReproducedTags(p) \in {0, 1}
          /\ \A p \in 1..Len(heap') :
                NewReproducedTags(p) > 0 =>
                    \E child \in ((Len(heap) + 1)..Len(heap')) \ {p} : BornTo(child, p) ]_vars

\* C35 witness: an update call in which a bear of reproductive age on the tile (0, 0)
\* was tagged and a bear was born on the tile (0, 2), while a rabbit of reproductive
\* age, which has no suitable tile nearby, is stored untagged.
C35_Witness ==
    /\ last.op = "update"
    /\ \E p \in entities, c \in entities, r \in entities :
          /\ heap[p].type = "bear" /\ HasStatus(heap[p], "reproduced")
          /\ heap[p].position = [x |-> 0, y |-> 0]
          /\ heap[c].type = "bear" /\ c > p /\ heap[c].position = [x |-> 0, y |-> 200]
          /\ heap[r].type = "rabbit" /\ heap[r].status = << >>
          /\ heap[r].age * 10 >= heap[r].maxAge * 2 /\ heap[r].age * 10 <= heap[r].maxAge * 8

\* two tiles are distinct 8-neighbours
Adjacent(a, b) == a # b /\ Abs(a[1] - b[1]) <= 1 /\ Abs(a[2] - b[2]) <= 1

\* C36: every non-empty result of findPath starts at the start tile, ends at the
\* goal, steps between distinct 8-neighbours of the grid, visits no tile twice and,
\* after the first tile, only tiles walkable for the type; findPath(t, t) is [t].
C36_PathWellFormed ==
    last.op = "findPath" =>
        LET path == last.path IN
        /\ last.start = last.target => path = << last.start >>
        /\ path # << >> =>
              /\ path[1] = last.start
              /\ path[Len(path)] = last.target
              /\ \A i \in 1..Len(path) : path[i] \in GridCoords(tiles)
              /\ \A i \in 1..(Len(path) - 1) : Adjacent(path[i], path[i + 1])
              /\ \A i, j \in 1..Len(path) : i # j => path[i] # path[j]
              /\ \A i \in 2..Len(path) :
                    /\ GridTile(tiles, path[i]).walkable
                    /\ last.type = "fish" => GridTile(tiles, path[i]).type \in WaterBiomes
                    /\ last.type = "wolf" => GridTile(tiles, path[i]).type # "ocean"

\* C36 witness: a path of four tiles that leads a wolf around non-walkable tiles and
\* the ocean.
C36_Witness ==
    /\ last.op = "findPath"
    /\ last.type = "wolf"
    /\ Len(last.path) = 4
    /\ \E t \in GridCoords(tiles) : ~GridTile(tiles, t).walkable
    /\ \E t \in GridCoords(tiles) : GridTile(tiles, t).type = "ocean"

\* C37: the result of findPath does not depend on the fields left on the tiles by
\* earlier searches: a search that follows other searches on the same tiles returns
\* the path that findPath returns on freshly initialised tiles.
C37_NoCrossRunLeakage ==
    last.op = "findPath" =>
        last.path = findPath(last.start, last.target, tiles, last.type)

\* C37 witness: the second search on the same tiles has returned a path of three tiles.
C37_Witness ==
    /\ last.op = "findPath"
    /\ updates = 2
    /\ Len(last.path) = 3

\* the total movement cost of a path: the sum of getMovementCost over consecutive tiles
RECURSIVE PathCost(_, _, _)
PathCost(grid, path, entityType) ==
    IF Len(path) < 2 THEN 0
    ELSE getMovementCost(grid, path[1], path[2], entityType)
           + PathCost(grid, Tail(path), entityType)

\* one step between 8-neighbours onto a tile walkable for the type
StepAllowed(grid, a, b, entityType) ==
    /\ a # b
    /\ Abs(a[1] - b[1]) <= 1
    /\ Abs(a[2] - b[2]) <= 1
    /\ isWalkableForEntity(GridTile(grid, b), entityType)

\* the tiles of a grid in a fixed order, and the place of a tile in it
TileNumber(grid, t) == t[1] * Len(grid[1]) + t[2] + 1

TileNumbered(grid, i) == << (i - 1) \div Len(grid[1]), (i - 1) % Len(grid[1]) >>

\* one round of relaxation for the tiles numbered i and above: costs holds the least
\* cost found so far of reaching each tile from the start tile
RECURSIVE RelaxedFrom(_, _, _, _)
RelaxedFrom(grid, entityType, costs, i) ==
    IF i > Len(costs) THEN << >>
    ELSE LET b == TileNumbered(grid, i)
             reached == {costs[i]} \cup
                 { costs[j] + getMovementCost(grid, TileNumbered(grid, j), b, entityType) :
                     j \in { k \in 1..Len(costs) :
                               /\ costs[k] < Infinity
                               /\ StepAllowed(grid, TileNumbered(grid, k), b, entityType) } }
         IN << CHOOSE m \in reached : \A n \in reached : m <= n >>
              \o RelaxedFrom(grid, entityType, costs, i + 1)

RECURSIVE LeastCosts(_, _, _, _)
LeastCosts(grid, entityType, costs, rounds) ==
    IF rounds = 0 THEN costs
    ELSE LeastCosts(grid, entityType, RelaxedFrom(grid, entityType, costs, 1), rounds - 1)

\* the least total cost of a path from the start tile to the target tile
LeastCost(grid, startTile, targetTile, entityType) ==
    LeastCosts(grid, entityType,
               [i \in 1..Cardinality(GridCoords(grid)) |->
                   IF i = TileNumber(grid, startTile) THEN 0 ELSE Infinity],
               Cardinality(GridCoords(grid)))[TileNumber(grid, targetTile)]

\* C38: a non-empty path returned by findPath is a least-cost path: its total movement
\* cost is the minimum over all paths from the start to the target through tiles
\* walkable for the type.
C38_PathIsLeastCost ==
    (last.op = "findPath" /\ last.path # << >>) =>
        PathCost(tiles, last.path, last.type)
            = LeastCost(tiles, last.start, last.target, last.type)

\* C39: in each update(dt) call the age of every entity that stays in the store grows
\* by exactly agingRate * dt = 0.01 * dt, whatever its type (age is counted in 1/1000
\* and delta in 1/10, so 0.01 * dt is delta units of age).
C39_AgesByRateTimesDelta ==
    [][ last'.op = "update" =>
          \A id \in entities \cap entities' :
              heap'[id].age = heap[id].age + last'.delta ]_vars

====
